---- MODULE Spec2Model ----
(***************************************************************************)
(* Model of the saw-log extractor procesar_archivo                         *)
(* (src/script_seccionadora.py) and of the ETL run that calls it           *)
(* (src/etl_secc.py).                                                      *)
(*                                                                         *)
(* Text is modelled as a sequence of one-character strings, so that every  *)
(* string operation of the code (strip, split, startswith, rsplit, int,    *)
(* float, the f-string formats) is computed character by character.        *)
(***************************************************************************)
EXTENDS Integers, Sequences, FiniteSets, TLC

VARIABLES
    existe,     \* the file can be opened (open() at line 15 succeeds)
    lineas,     \* the lines of the file, in order, as the bytes on disk
    fallaEn,    \* 0, or the number of the line whose read raises OSError
    pc,         \* position of the call: "abrir", "bucle", "retornado", "excepcion"
    i,          \* number of lines consumed by the for loop
    datos,      \* the accumulator list of the call
    retorno,    \* what the caller received: [dado |-> FALSE] until the return
    conc,       \* concurrent calls: for each call its lines, position and result
    acum,       \* concurrent calls: the accumulator lists, by owner
    entrada,    \* ETL: names of the files of the input folder, in listing order
    procesados, \* ETL: names of the files moved to the processed folder
    tabla,      \* ETL: the rows of the table cortes_seccionadora
    etl,        \* ETL: the local state of the run of main in progress
    origen,     \* migration: the rows of the local table, ordered by id
    destino,    \* migration: the rows of the table of the target database
    mig,        \* migration: the position and the locals of the run of main
    guion,      \* export: the file supabase_data_insert.sql
    gen         \* export: the locals of the call of generate_insert_script

\* The state of one call of procesar_archivo, of the concurrent calls, of the
\* ETL, of the migration and of the export.
varsLlamada == <<existe, lineas, fallaEn, pc, i, datos, retorno>>

varsConc == <<conc, acum>>

varsEtl == <<entrada, procesados, tabla, etl>>

varsMigra == <<origen, destino, mig>>

varsGen == <<guion, gen>>

vars == <<existe, lineas, fallaEn, pc, i, datos, retorno,
          conc, acum, entrada, procesados, tabla, etl,
          origen, destino, mig, guion, gen>>

----------------------------------------------------------------------------
(* Characters and basic text operations (Python str methods).              *)

\* The value of F at v, with v computed once (a local binding of the code).
Con(v, F(_)) == CHOOSE r \in {F(x) : x \in {v}} : TRUE

\* str.isspace for the characters of the model's alphabet.
IsSpace(c) == c \in {" ", "\t", "\n", "\r"}

Digitos == <<"0", "1", "2", "3", "4", "5", "6", "7", "8", "9">>

IsDigit(c) == \E d \in 1..10 : Digitos[d] = c

\* Value of a digit character.
DigitVal(c) == (CHOOSE d \in 1..10 : Digitos[d] = c) - 1

\* s[n:] : s without its first n characters.
Drop(s, n) == IF n >= Len(s) THEN <<>> ELSE SubSeq(s, n + 1, Len(s))

\* s[:n] : the first n characters of s.
Take(s, n) == IF n <= 0 THEN <<>> ELSE SubSeq(s, 1, IF n > Len(s) THEN Len(s) ELSE n)

\* c in s
Contains(s, c) == \E k \in 1..Len(s) : s[k] = c

\* s.find(c) + 1 : position of the first c in s, 0 when absent.
IndexOf(s, c) ==
    IF Contains(s, c)
    THEN CHOOSE k \in 1..Len(s) : s[k] = c /\ \A j \in 1..(k - 1) : s[j] # c
    ELSE 0

\* s.rfind(c) + 1 : position of the last c in s, 0 when absent.
LastIndexOf(s, c) ==
    IF Contains(s, c)
    THEN CHOOSE k \in 1..Len(s) : s[k] = c /\ \A j \in (k + 1)..Len(s) : s[j] # c
    ELSE 0

\* s.startswith(p)
StartsWith(s, p) == Len(p) <= Len(s) /\ SubSeq(s, 1, Len(p)) = p

\* s.strip() : leading and trailing whitespace removed.
Strip(s) ==
    LET noesp == {k \in 1..Len(s) : ~IsSpace(s[k])}
    IN  IF noesp = {} THEN <<>>
        ELSE LET a == CHOOSE k \in noesp : \A j \in noesp : k <= j
                 b == CHOOSE k \in noesp : \A j \in noesp : k >= j
             IN  SubSeq(s, a, b)

\* s.split(c) : the fields of s between the occurrences of c (never empty:
\* a text without c is one field, an empty text is one empty field).
RECURSIVE Split(_, _)
Split(s, c) ==
    LET k == IndexOf(s, c)
    IN  IF k = 0 THEN <<s>>
        ELSE <<Take(s, k - 1)>> \o Split(Drop(s, k), c)

\* Variant of SplitFirstEq: the text is cut at its last '=' (rsplit).
SplitFirstEq_Ultimo(line) ==
    LET k == LastIndexOf(line, "=")
    IN  IF k = 0 THEN <<line>> ELSE <<Take(line, k - 1), Drop(line, k)>>

\* line.split('=', 1) : the text cut once at its first '=' (one element when
\* there is no '=', two otherwise).
SplitFirstEq(line) ==
    LET k == IndexOf(line, "=")
    IN  IF k = 0 THEN <<line>> ELSE <<Take(line, k - 1), Drop(line, k)>>

\* nombre_opt.rsplit('.', 1)[0] : what precedes the last '.', the whole
\* text when it has no '.'.
RSplitDot(nombre) ==
    LET k == LastIndexOf(nombre, ".")
    IN  IF k = 0 THEN nombre ELSE Take(nombre, k - 1)

----------------------------------------------------------------------------
(* Reading the file: open(filepath, 'r', encoding='utf-8', errors='ignore'). *)
(* An ASCII byte is written as its character; the other bytes by their two  *)
(* hexadecimal digits; a decoded non-ASCII character by its code point.     *)

\* Lead bytes of a two-byte sequence, continuation bytes, and bytes that
\* occur in no UTF-8 sequence.
BytesInicio == {"C3"}

BytesCont == {"B1", "80"}

BytesInvalidos == {"FF"}

\* The character a lead byte and a continuation byte encode.
Caracter(b1, b2) == IF b2 = "B1" THEN "U+00F1" ELSE "U+00C0"

\* Variant of Errores: errors='replace', every undecodable byte becomes the
\* replacement character.
Errores_Replace == "replace"

\* Line 15: the error handler of the decoder.
Errores == "ignore"

\* What the handler puts in the place of an undecodable byte.
PorError(errors) == IF errors = "ignore" THEN <<>> ELSE <<"U+FFFD">>

\* What the decoder emits for byte k of b: the character of a complete
\* sequence at its lead byte and nothing more at its continuation byte; the
\* handler's text for a lead byte without continuation, a continuation
\* without lead and an invalid byte; the character of an ASCII byte.
DecodificarByte(b, k) ==
    IF b[k] \in BytesInicio
    THEN IF k < Len(b) /\ b[k + 1] \in BytesCont
         THEN <<Caracter(b[k], b[k + 1])>>
         ELSE PorError(Errores)
    ELSE IF b[k] \in BytesCont
    THEN IF k > 1 /\ b[k - 1] \in BytesInicio THEN <<>> ELSE PorError(Errores)
    ELSE IF b[k] \in BytesInvalidos THEN PorError(Errores)
    ELSE <<b[k]>>

\* The text of bytes lo .. hi of b.
RECURSIVE DecodificarTramo(_, _, _)
DecodificarTramo(b, lo, hi) ==
    IF lo > hi THEN <<>>
    ELSE IF lo = hi THEN DecodificarByte(b, lo)
    ELSE DecodificarTramo(b, lo, (lo + hi) \div 2)
             \o DecodificarTramo(b, (lo + hi) \div 2 + 1, hi)

\* Line 15, errors='ignore': the text of a line of bytes.
Decodificar(b) == Con(b, LAMBDA bytes : DecodificarTramo(bytes, 1, Len(bytes)))

----------------------------------------------------------------------------
(* Numeric conversions: int(), float() and the zero-padded formats.        *)

\* A run of decimal digits in which single underscores may separate digits
\* (the digit part of a Python numeric literal).
IsDigitRun(b) ==
    /\ Len(b) > 0
    /\ IsDigit(b[1])
    /\ IsDigit(b[Len(b)])
    /\ \A k \in 1..Len(b) : IsDigit(b[k]) \/ b[k] = "_"
    /\ \A k \in 1..(Len(b) - 1) : ~(b[k] = "_" /\ b[k + 1] = "_")

\* Decimal value of a digit run (underscores skipped).
RECURSIVE DigitRunVal(_)
DigitRunVal(b) ==
    IF b = <<>> THEN 0
    ELSE IF b[Len(b)] = "_" THEN DigitRunVal(Take(b, Len(b) - 1))
    ELSE 10 * DigitRunVal(Take(b, Len(b) - 1)) + DigitVal(b[Len(b)])

\* Number of digits of a digit run.
NumDigits(b) == Cardinality({k \in 1..Len(b) : IsDigit(b[k])})

\* The sign of a numeric text and what follows it.
Signo(t) == IF t # <<>> /\ t[1] = "-" THEN -1 ELSE 1

SinSigno(t) == IF t # <<>> /\ t[1] \in {"+", "-"} THEN Drop(t, 1) ELSE t

\* int(s) : [ok |-> FALSE] stands for ValueError.
ParseInt(s) ==
    Con(Strip(s), LAMBDA t :
        Con(SinSigno(t), LAMBDA b :
            IF IsDigitRun(b)
            THEN [ok |-> TRUE, val |-> Signo(t) * DigitRunVal(b)]
            ELSE [ok |-> FALSE, val |-> 0]))

\* str.lower for the letters float() looks at.
Lower(c) ==
    CASE c = "I" -> "i" [] c = "N" -> "n" [] c = "F" -> "f" [] c = "A" -> "a"
      [] c = "T" -> "t" [] c = "Y" -> "y" [] c = "E" -> "e" [] OTHER -> c

RECURSIVE LowerStr(_)
LowerStr(s) == IF s = <<>> THEN <<>> ELSE <<Lower(s[1])>> \o LowerStr(Drop(s, 1))

RECURSIVE Pow10(_)
Pow10(n) == IF n <= 0 THEN 1 ELSE 10 * Pow10(n - 1)

\* A float as the decimal m * 10^e in normal form (m not a multiple of 10,
\* zero is m = 0, e = 0), or one of the special values. Within the bounded
\* tokens (at most 15 significant digits, small exponents) two texts give the
\* same double exactly when they give the same decimal.
RECURSIVE Decimal(_, _)
Decimal(m, e) ==
    IF m = 0 THEN [esp |-> "", m |-> 0, e |-> 0]
    ELSE IF m % 10 = 0 THEN Decimal(m \div 10, e + 1)
    ELSE [esp |-> "", m |-> m, e |-> e]

Especial(nombre) == [esp |-> nombre, m |-> 0, e |-> 0]

\* The mantissa of a float literal: digits, digits '.', digits '.' digits or
\* '.' digits. Gives its digits (as one run) and the number of decimals.
Mantisa(t) ==
    Con(IndexOf(t, "."), LAMBDA k :
    Con(IF k = 0 THEN t ELSE Take(t, k - 1), LAMBDA en :
    Con(IF k = 0 THEN <<>> ELSE Drop(t, k), LAMBDA fr :
        [ok  |-> /\ en = <<>> \/ IsDigitRun(en)
                 /\ fr = <<>> \/ IsDigitRun(fr)
                 /\ en # <<>> \/ fr # <<>>,
         dig |-> en \o fr,
         dec |-> NumDigits(fr)])))

\* The exponent of a float literal, given what follows its 'e' (nothing
\* when the literal has no 'e').
Exponente(k, ex) ==
    IF k = 0 THEN [ok |-> TRUE, val |-> 0]
    ELSE Con(SinSigno(ex), LAMBDA d :
             [ok |-> IsDigitRun(d), val |-> Signo(ex) * DigitRunVal(d)])

\* float(s) : [ok |-> FALSE] stands for ValueError.
ParseFloat(s) ==
    Con(Strip(s), LAMBDA t :
    Con(LowerStr(SinSigno(t)), LAMBDA b :
    Con(IndexOf(b, "e"), LAMBDA k :
    Con(Mantisa(IF k = 0 THEN b ELSE Take(b, k - 1)), LAMBDA mant :
    Con(Exponente(k, Drop(b, k)), LAMBDA ex :
        IF b \in {<<"i", "n", "f">>, <<"i", "n", "f", "i", "n", "i", "t", "y">>}
        THEN [ok |-> TRUE, val |-> Especial(IF Signo(t) < 0 THEN "-inf" ELSE "inf")]
        ELSE IF b = <<"n", "a", "n">>
        THEN [ok |-> TRUE, val |-> Especial("nan")]
        ELSE IF mant.ok /\ ex.ok
        THEN [ok |-> TRUE,
              val |-> IF ex.val - mant.dec >= 0
                      THEN Decimal(Signo(t) * DigitRunVal(mant.dig)
                                       * Pow10(ex.val - mant.dec), 0)
                      ELSE Decimal(Signo(t) * DigitRunVal(mant.dig),
                                   ex.val - mant.dec)]
        ELSE [ok |-> FALSE, val |-> Decimal(0, 0)])))))

\* str(n) for n >= 0.
RECURSIVE NatStr(_)
NatStr(n) ==
    IF n < 10 THEN <<Digitos[n + 1]>>
    ELSE NatStr(n \div 10) \o <<Digitos[(n % 10) + 1]>>

RECURSIVE Zeros(_)
Zeros(n) == IF n <= 0 THEN <<>> ELSE <<"0">> \o Zeros(n - 1)

\* format(v, '0wd') : v in decimal, zero-padded after the sign to w
\* characters; never truncated.
FmtD(v, w) ==
    LET d == NatStr(IF v < 0 THEN -v ELSE v)
        s == IF v < 0 THEN <<"-">> ELSE <<>>
    IN  s \o Zeros(w - Len(s) - Len(d)) \o d

----------------------------------------------------------------------------
(* procesar_archivo: the body of the loop.                                 *)

\* Variant of trash: the short prefix .\ comes first.
trash_CortoPrimero ==
    << <<".", "\\">>,
       <<".", "\\", "p", "r", "g", "\\">>,
       <<"C", ":", "\\", "W", "i", "n", "C", "u", "t", "\\", "p", "r", "g", "\\">>,
       <<"C", ":", "W", "i", "n", "C", "u", "t", "\\", "p", "r", "g", "\\">> >>

\* The list of path prefixes the loop at line 22 walks, in its order:
\* .\prg\   C:\WinCut\prg\   .\   C:WinCut\prg\
trash ==
    << <<".", "\\", "p", "r", "g", "\\">>,
       <<"C", ":", "\\", "W", "i", "n", "C", "u", "t", "\\", "p", "r", "g", "\\">>,
       <<".", "\\">>,
       <<"C", ":", "W", "i", "n", "C", "u", "t", "\\", "p", "r", "g", "\\">> >>

\* Lines 22-24: for every prefix of the list in turn, remove it when the
\* text starts with it (the loop has no break: it goes on with what remains).
RECURSIVE QuitarDesde(_, _)
QuitarDesde(raw_content, k) ==
    IF k > Len(trash) THEN raw_content
    ELSE QuitarDesde(IF StartsWith(raw_content, trash[k])
                     THEN Drop(raw_content, Len(trash[k]))
                     ELSE raw_content,
                     k + 1)

\* Variant of QuitarBasura: only the first prefix of the list is looked for.
QuitarBasura_SoloPrimero(raw_content) ==
    IF StartsWith(raw_content, trash[1])
    THEN Drop(raw_content, Len(trash[1]))
    ELSE raw_content

QuitarBasura(raw_content) == QuitarDesde(raw_content, 1)

\* The least number of fields of a data line (line 28).
MinCampos == 17

\* parts[k] with the code's 0-based index.
P(parts, k) == parts[k + 1]

\* 0-based positions converted with int() and with float().
PosInt == {4, 5, 7, 8, 9, 10, 11, 12, 14, 16}

PosFloat == {1, 2, 3}

\* Variant of JobKey: the name is cut at its first '.' (split instead of
\* rsplit).
JobKey_PrimerPunto(nombre_opt) ==
    IF Contains(nombre_opt, ".")
    THEN Take(nombre_opt, IndexOf(nombre_opt, ".") - 1)
    ELSE nombre_opt

\* Variant of JobKey: the last element of the rsplit is kept, not the first.
JobKey_Extension(nombre_opt) == Drop(nombre_opt, LastIndexOf(nombre_opt, "."))

\* Variant of JobKey: the name is sliced up to rfind('.'), which is -1 when
\* the name has no '.', so that its last character is lost.
JobKey_Rfind(nombre_opt) ==
    IF Contains(nombre_opt, ".")
    THEN Take(nombre_opt, LastIndexOf(nombre_opt, ".") - 1)
    ELSE Take(nombre_opt, Len(nombre_opt) - 1)

\* Line 34: the job key of a program name.
JobKey(nombre_opt) == RSplitDot(nombre_opt)

\* Variant of Fmt3: the second and third number change places.
Fmt3_Trocado(a, b, c, w, sep) == FmtD(a, w) \o <<sep>> \o FmtD(c, 2) \o <<sep>> \o FmtD(b, 2)

\* Three numbers in the formats of lines 40-42: the first zero-padded to w
\* characters, the other two to 2, joined by sep.
Fmt3(a, b, c, w, sep) == FmtD(a, w) \o <<sep>> \o FmtD(b, 2) \o <<sep>> \o FmtD(c, 2)

\* The positions in the order in which the dict of lines 37-47 evaluates them.
Orden == <<8, 10, 9, 5, 4, 7, 12, 11, 14, 1, 2, 3, 16>>

SinEntero == [ok |-> FALSE, val |-> 0]

SinFloat == [ok |-> FALSE, val |-> Decimal(0, 0)]

\* Variant of Registro: length and width read from each other's position.
Registro_AnchoPorLargo(parts) ==
    Con([k \in PosInt |-> IF k < Len(parts) THEN ParseInt(P(parts, k)) ELSE SinEntero],
        LAMBDA n :
    Con([k \in PosFloat |-> IF k < Len(parts) THEN ParseFloat(P(parts, k)) ELSE SinFloat],
        LAMBDA f :
    Con(Strip(P(parts, 0)), LAMBDA nombre_opt :
    Con({j \in 1..Len(Orden) : IF Orden[j] \in PosInt THEN ~n[Orden[j]].ok
                                                      ELSE ~f[Orden[j]].ok},
        LAMBDA malas :
        [exc |-> IF malas = {} THEN ""
                 ELSE IF Orden[CHOOSE j \in malas : \A m \in malas : j <= m] >= Len(parts)
                 THEN "IndexError"
                 ELSE "ValueError",
         reg |-> [nombre_optimizacion |-> nombre_opt,
                  job_key           |-> JobKey(nombre_opt),
                  fecha_proceso_str |-> Fmt3(n[8].val, n[10].val, n[9].val, 4, "-"),
                  hora_inicio_str   |-> Fmt3(n[5].val, n[4].val, n[7].val, 2, ":"),
                  hora_fin_str      |-> Fmt3(n[12].val, n[11].val, n[14].val, 2, ":"),
                  largo_mm          |-> f[2].val,
                  ancho_mm          |-> f[1].val,
                  espesor_mm        |-> f[3].val,
                  cantidad_placas   |-> n[16].val]]))))

\* Variant of Registro: the plate count is read from position 15.
Registro_Placas15(parts) ==
    Con([k \in PosInt \cup {15} |-> IF k < Len(parts) THEN ParseInt(P(parts, k)) ELSE SinEntero],
        LAMBDA n :
    Con([k \in PosFloat |-> IF k < Len(parts) THEN ParseFloat(P(parts, k)) ELSE SinFloat],
        LAMBDA f :
    Con(Strip(P(parts, 0)), LAMBDA nombre_opt :
    Con({j \in 1..Len(Orden) : IF Orden[j] \in PosInt THEN ~n[Orden[j]].ok
                                                      ELSE ~f[Orden[j]].ok},
        LAMBDA malas :
        [exc |-> IF malas = {} THEN ""
                 ELSE IF Orden[CHOOSE j \in malas : \A m \in malas : j <= m] >= Len(parts)
                 THEN "IndexError"
                 ELSE "ValueError",
         reg |-> [nombre_optimizacion |-> nombre_opt,
                  job_key           |-> JobKey(nombre_opt),
                  fecha_proceso_str |-> Fmt3(n[8].val, n[10].val, n[9].val, 4, "-"),
                  hora_inicio_str   |-> Fmt3(n[5].val, n[4].val, n[7].val, 2, ":"),
                  hora_fin_str      |-> Fmt3(n[12].val, n[11].val, n[14].val, 2, ":"),
                  largo_mm          |-> f[1].val,
                  ancho_mm          |-> f[2].val,
                  espesor_mm        |-> f[3].val,
                  cantidad_placas   |-> n[15].val]]))))

\* Lines 29-47: the dict built from the fields. exc names the exception of
\* the first conversion that fails, in evaluation order (IndexError for a
\* position past the last field, ValueError for a text that is no number);
\* it is "" when the dict is built, and reg is then the dict.
Registro(parts) ==
    Con([k \in PosInt |-> IF k < Len(parts) THEN ParseInt(P(parts, k)) ELSE SinEntero],
        LAMBDA n :
    Con([k \in PosFloat |-> IF k < Len(parts) THEN ParseFloat(P(parts, k)) ELSE SinFloat],
        LAMBDA f :
    Con(Strip(P(parts, 0)), LAMBDA nombre_opt :
    Con({j \in 1..Len(Orden) : IF Orden[j] \in PosInt THEN ~n[Orden[j]].ok
                                                      ELSE ~f[Orden[j]].ok},
        LAMBDA malas :
        [exc |-> IF malas = {} THEN ""
                 ELSE IF Orden[CHOOSE j \in malas : \A m \in malas : j <= m] >= Len(parts)
                 THEN "IndexError"
                 ELSE "ValueError",
         reg |-> [nombre_optimizacion |-> nombre_opt,
                  job_key           |-> JobKey(nombre_opt),
                  fecha_proceso_str |-> Fmt3(n[8].val, n[10].val, n[9].val, 4, "-"),
                  hora_inicio_str   |-> Fmt3(n[5].val, n[4].val, n[7].val, 2, ":"),
                  hora_fin_str      |-> Fmt3(n[12].val, n[11].val, n[14].val, 2, ":"),
                  largo_mm          |-> f[1].val,
                  ancho_mm          |-> f[2].val,
                  espesor_mm        |-> f[3].val,
                  cantidad_placas   |-> n[16].val]]))))

\* Variant of Intento: the record is appended whether or not its conversions
\* succeeded.
Intento_SinVerificar(line) ==
    Con(SplitFirstEq(line), LAMBDA sp :
        IF Len(sp) < 2 THEN [exc |-> "IndexError", nuevos |-> <<>>]
        ELSE Con(Split(QuitarBasura(sp[2]), ","), LAMBDA parts :
                 IF Len(parts) >= MinCampos
                 THEN [exc |-> "", nuevos |-> <<Registro(parts).reg>>]
                 ELSE [exc |-> "", nuevos |-> <<>>]))

\* Variant of Intento: the field count is tested with > instead of >=.
Intento_MasDe17(line) ==
    Con(SplitFirstEq(line), LAMBDA sp :
        IF Len(sp) < 2 THEN [exc |-> "IndexError", nuevos |-> <<>>]
        ELSE Con(Split(QuitarBasura(sp[2]), ","), LAMBDA parts :
                 IF Len(parts) > MinCampos
                 THEN Con(Registro(parts), LAMBDA r :
                          IF r.exc = "" THEN [exc |-> "", nuevos |-> <<r.reg>>]
                          ELSE [exc |-> r.exc, nuevos |-> <<>>])
                 ELSE [exc |-> "", nuevos |-> <<>>]))

\* Lines 20-49: the try block on a stripped line. exc names the exception the
\* block raises ("" when none), nuevos the records it appends.
Intento(line) ==
    Con(SplitFirstEq(line), LAMBDA sp :
        IF Len(sp) < 2 THEN [exc |-> "IndexError", nuevos |-> <<>>]
        ELSE Con(Split(QuitarBasura(sp[2]), ","), LAMBDA parts :
                 IF Len(parts) >= MinCampos
                 THEN Con(Registro(parts), LAMBDA r :
                          IF r.exc = "" THEN [exc |-> "", nuevos |-> <<r.reg>>]
                          ELSE [exc |-> r.exc, nuevos |-> <<>>])
                 ELSE [exc |-> "", nuevos |-> <<>>]))

\* Variant of Atrapadas: the except clause names IndexError alone.
Atrapadas_SoloIndexError == {"IndexError"}

\* Exceptions the except clause of line 48 catches.
Atrapadas == {"ValueError", "IndexError"}

\* Variant of Iteracion: the record is inserted at the front of the list.
Iteracion_AlFrente(raw, d) ==
    Con(Strip(raw), LAMBDA line :
        IF line = <<>> \/ ~Contains(line, "=")
        THEN [sigue |-> TRUE, d |-> d]
        ELSE Con(Intento(line), LAMBDA t :
                 IF t.exc = "" THEN [sigue |-> TRUE, d |-> t.nuevos \o d]
                 ELSE IF t.exc \in Atrapadas THEN [sigue |-> TRUE, d |-> d]
                 ELSE [sigue |-> FALSE, d |-> d]))

\* Lines 17-49: one iteration of the loop on a raw line. sigue is FALSE when
\* an exception leaves the loop; d is the accumulator after the iteration.
Iteracion(raw, d) ==
    Con(Strip(raw), LAMBDA line :
        IF line = <<>> \/ ~Contains(line, "=")
        THEN [sigue |-> TRUE, d |-> d]
        ELSE Con(Intento(line), LAMBDA t :
                 IF t.exc = "" THEN [sigue |-> TRUE, d |-> d \o t.nuevos]
                 ELSE IF t.exc \in Atrapadas THEN [sigue |-> TRUE, d |-> d]
                 ELSE [sigue |-> FALSE, d |-> d]))

----------------------------------------------------------------------------
(* The inputs: log files as sequences of lines.                            *)

\* Bounds of the model.
MaxLineas == 3      \* lines of a file drawn from LineasLote

MaxPrefijos == 2    \* path prefixes stacked in front of a program name

MaxExtra == 1       \* fields after the 17th

\* Fields 1..16 of the reference line of the log format:
\* ABC123.301,1200,600,18,0,10,0,5,2025,15,8,20,12,0,25,0,50
CamposBase ==
    << <<"1", "2", "0", "0">>,
       <<"6", "0", "0">>,
       <<"1", "8">>,
       <<"0">>,
       <<"1", "0">>,
       <<"0">>,
       <<"5">>,
       <<"2", "0", "2", "5">>,
       <<"1", "5">>,
       <<"8">>,
       <<"2", "0">>,
       <<"1", "2">>,
       <<"0">>,
       <<"2", "5">>,
       <<"0">>,
       <<"5", "0">> >>

NombreBase == <<"A", "B", "C", "1", "2", "3", ".", "3", "0", "1">>

\* Program names: with one dot, with inner dots, without dot, with
\* surrounding blanks, starting with a dot, empty.
Nombres ==
    { NombreBase,
      <<"J", "O", "B", "_", "A", ".", "2", ".", "1", "0", "0">>,
      <<"J", "O", "B">>,
      <<" ", "N", ".", "1", " ">>,
      <<".", "3", "0", "1">>,
      <<>> }

\* Texts put in a field: integers in and out of calendar range, signed,
\* padded, with underscore, decimal, exponent, special floats, and texts that
\* are no number.
Tokens ==
    { <<"0">>,
      <<"7">>,
      <<"1", "3">>,
      <<"6", "0">>,
      <<"2", "5">>,
      <<"4", "0">>,
      <<"-", "5">>,
      <<"+", "3">>,
      <<" ", "8", " ">>,
      <<"1", "_", "0">>,
      <<"x">>,
      <<>>,
      <<"1", ".", "5">>,
      <<"1", "e", "3">>,
      <<"n", "a", "n">>,
      <<".", "5">>,
      <<"1", "_", "_", "0">>,
      <<"-">> }

\* What a line carries before its first '='.
Cabeza == <<"P", "R", "G">>

RECURSIVE Unir(_)
Unir(campos) ==
    IF campos = <<>> THEN <<>>
    ELSE <<",">> \o campos[1] \o Unir(Drop(campos, 1))

\* A raw line as the file yields it: head, '=', payload, line terminator.
Linea(cabeza, carga) == cabeza \o <<"=">> \o carga \o <<"\n">>

Carga(pre, nombre, campos) == pre \o nombre \o Unir(campos)

\* Concatenations of at most n prefixes of the list.
RECURSIVE Pilas(_)
Pilas(n) ==
    IF n = 0 THEN {<<>>}
    ELSE Pilas(n - 1) \cup {trash[k] \o p : k \in 1..Len(trash), p \in Pilas(n - 1)}

Relleno(n) == [k \in 1..n |-> <<"x">>]

LineasPrefijo ==
    {Linea(Cabeza, Carga(pre, nom, CamposBase)) : pre \in Pilas(MaxPrefijos), nom \in Nombres}

LineasCampo ==
    {Linea(Cabeza, Carga(<<>>, NombreBase, [CamposBase EXCEPT ![p] = t])) :
        p \in 1..Len(CamposBase), t \in Tokens}

\* Lines of 1 .. 17 + MaxExtra fields.
LineasCorte ==
    {Linea(Cabeza, Carga(<<>>, NombreBase, Take(CamposBase \o Relleno(MaxExtra), n))) :
        n \in 0..(Len(CamposBase) + MaxExtra)}

\* Blank lines, lines without '=', lines with an empty head or payload, a
\* line with blanks around it, a line with a second '='.
LineasOtras ==
    { <<>>,
      <<"\n">>,
      <<" ", "\t", "\n">>,
      <<"H", "E", "A", "D", "E", "R", ",", "1", "\n">>,
      Carga(<<>>, NombreBase, CamposBase) \o <<"\n">>,
      <<"=", "\n">>,
      Linea(<<>>, Carga(<<>>, NombreBase, CamposBase)),
      <<" ", " ">> \o Linea(Cabeza, Carga(<<>>, NombreBase, CamposBase \o <<<<" ">>>>)),
      Linea(<<"A", "=", "B">>, Carga(<<>>, NombreBase, CamposBase)) }

\* Payloads that almost start with a prefix: a blank before it, other
\* letter case, a character before it.
LineasCasi ==
    { Linea(Cabeza, <<" ">> \o Carga(trash[1], <<"J", "O", "B">>, CamposBase)),
      Linea(Cabeza, Carga(<<".", "\\", "P", "R", "G", "\\">>, <<"J", "O", "B">>, CamposBase)),
      Linea(Cabeza, Carga(<<"c", ":", "\\", "w", "i", "n", "c", "u", "t", "\\", "p", "r", "g", "\\">>,
                          <<"J", "O", "B">>, CamposBase)),
      Linea(Cabeza, Carga(<<"X">> \o trash[3], <<"J", "O", "B">>, CamposBase)) }

LineasRicas ==
    LineasPrefijo \cup LineasCampo \cup LineasCorte \cup LineasOtras \cup LineasCasi

\* The lines of the multi-line files: a well-formed line, a well-formed line
\* with two stacked prefixes, a line with a non-numeric field, a line of 16
\* fields, a line without '=' and a line with month 13.
LineasLote ==
    { Linea(Cabeza, Carga(<<>>, NombreBase, CamposBase)),
      Linea(Cabeza, Carga(trash[1] \o trash[3], <<"J", "O", "B">>, [CamposBase EXCEPT ![16] = <<"7">>])),
      Linea(Cabeza, Carga(<<>>, NombreBase, [CamposBase EXCEPT ![1] = <<"x">>])),
      Linea(Cabeza, Carga(<<>>, NombreBase, Take(CamposBase, 15))),
      <<"H", "E", "A", "D", "E", "R", ",", "1", "\n">>,
      Linea(Cabeza, Carga(<<>>, NombreBase, [CamposBase EXCEPT ![10] = <<"1", "3">>])) }

Archivos ==
    UNION {[1..n -> LineasLote] : n \in 0..MaxLineas} \cup {<<l>> : l \in LineasRicas}

\* Lines with bytes that are no valid UTF-8: an invalid byte inside the
\* length field of a well-formed line; a name with a two-byte character and a
\* lead byte cut short; a stray continuation byte in a line whose length is
\* no number; a line of undecodable bytes only; and a plain well-formed line.
LineasBytes ==
    { Linea(Cabeza, Carga(<<>>, NombreBase,
                          [CamposBase EXCEPT ![1] = <<"1", "2", "FF", "0", "0">>])),
      Linea(Cabeza, Carga(<<>>, <<"A", "C3", "B1", "O", "C3", ".", "1">>, CamposBase)),
      Linea(Cabeza, Carga(<<>>, NombreBase, [CamposBase EXCEPT ![1] = <<"x", "80">>])),
      <<"FF", "C3", "\n">>,
      Linea(Cabeza, Carga(<<>>, <<"J", "O", "B">>, CamposBase)) }

ArchivosBytes == UNION {[1..n -> LineasBytes] : n \in 0..MaxLineas}

----------------------------------------------------------------------------
(* The call procesar_archivo(filepath) as a state machine.                 *)

SinRetorno == [dado |-> FALSE, df |-> <<>>]

\* No concurrent calls and no ETL run are in progress.
ConcReposo == conc = <<>> /\ acum = <<>>

EtlReposo ==
    /\ entrada = <<>>
    /\ procesados = <<>>
    /\ tabla = <<>>
    /\ etl = [pc |-> "reposo"]

\* No migration and no export are in progress.
MigraReposo ==
    /\ origen = <<>>
    /\ destino = <<>>
    /\ mig = [pc |-> "reposo"]

GenReposo ==
    /\ guion = [existe |-> FALSE]
    /\ gen = [pc |-> "reposo"]

\* No single call is in progress.
LlamadaReposo ==
    /\ existe = FALSE
    /\ lineas = <<>>
    /\ fallaEn = 0
    /\ pc = "reposo"
    /\ i = 0
    /\ datos = <<>>
    /\ retorno = SinRetorno

\* The state of a call on the file with lines f after line 14 (datos = []):
\* a file that cannot be opened has no content to yield; a readable one may
\* fail at the read of any of its lines.
InitLlamada(archivos) ==
    /\ existe \in BOOLEAN
    /\ lineas \in archivos
    /\ fallaEn \in 0..Len(lineas)
    /\ ~existe => lineas = <<>>
    /\ pc = "abrir"
    /\ i = 0
    /\ datos = <<>>
    /\ retorno = SinRetorno
    /\ ConcReposo
    /\ EtlReposo
    /\ MigraReposo
    /\ GenReposo

Init == InitLlamada(Archivos)

\* Line 15: open() succeeds.
Abrir ==
    /\ pc = "abrir"
    /\ existe
    /\ pc' = "bucle"
    /\ UNCHANGED <<existe, lineas, fallaEn, i, datos, retorno>>

\* Variant of AbrirFalla: the failure to open is swallowed and an empty result
\* is returned.
AbrirFalla_DevuelveVacio ==
    /\ pc = "abrir"
    /\ ~existe
    /\ pc' = "retornado"
    /\ retorno' = [dado |-> TRUE, df |-> <<>>]
    /\ UNCHANGED <<existe, lineas, fallaEn, i, datos>>

\* Line 15: open() raises OSError (missing or unreadable file); nothing in
\* the function catches it.
AbrirFalla ==
    /\ pc = "abrir"
    /\ ~existe
    /\ pc' = "excepcion"
    /\ UNCHANGED <<existe, lineas, fallaEn, i, datos, retorno>>

\* Line 16: the read of the next line raises OSError; the except clause of
\* line 48 is inside the loop body and does not cover the read.
LeerFalla ==
    /\ pc = "bucle"
    /\ i < Len(lineas)
    /\ fallaEn = i + 1
    /\ pc' = "excepcion"
    /\ UNCHANGED <<existe, lineas, fallaEn, i, datos, retorno>>

\* Lines 16-49: the loop takes the next line and runs its body on it.
ProcesarLinea ==
    /\ pc = "bucle"
    /\ i < Len(lineas)
    /\ fallaEn # i + 1
    /\ \E it \in {Iteracion(Decodificar(lineas[i + 1]), datos)} :
           /\ datos' = it.d
           /\ pc' = IF it.sigue THEN "bucle" ELSE "excepcion"
    /\ i' = i + 1
    /\ UNCHANGED <<existe, lineas, fallaEn, retorno>>

\* Line 51: the file is exhausted and the DataFrame of datos is returned.
Retornar ==
    /\ pc = "bucle"
    /\ i = Len(lineas)
    /\ retorno' = [dado |-> TRUE, df |-> datos]
    /\ pc' = "retornado"
    /\ UNCHANGED <<existe, lineas, fallaEn, i, datos>>

\* The steps of one call; nothing else moves meanwhile.
Next ==
    \/ Abrir /\ UNCHANGED <<varsConc, varsEtl, varsMigra, varsGen>>
    \/ AbrirFalla /\ UNCHANGED <<varsConc, varsEtl, varsMigra, varsGen>>
    \/ LeerFalla /\ UNCHANGED <<varsConc, varsEtl, varsMigra, varsGen>>
    \/ ProcesarLinea /\ UNCHANGED <<varsConc, varsEtl, varsMigra, varsGen>>
    \/ Retornar /\ UNCHANGED <<varsConc, varsEtl, varsMigra, varsGen>>

Spec == Init /\ [][Next]_vars

\* The same call on files that hold bytes that are no valid UTF-8.
InitBytes == InitLlamada(ArchivosBytes)

SpecBytes == InitBytes /\ [][Next]_vars

----------------------------------------------------------------------------
(* Vocabulary of the properties. These definitions read a raw line the way  *)
(* the log format describes it; they do not go through Iteracion.          *)

\* A step of the loop body on a line (the only steps that advance i).
PasoLinea == pc = "bucle" /\ i' = i + 1

\* The line such a step works on.
LineaEnCurso == lineas[i + 1]

\* The step added a record.
Emite == Len(datos') = Len(datos) + 1 /\ SubSeq(datos', 1, Len(datos)) = datos

\* The record the step added.
Emitido == datos'[Len(datos')]

\* The line carries data: it is not blank and holds a '='.
ConDatos(raw) == Strip(raw) # <<>> /\ Contains(raw, "=")

\* What follows the first '=' of the trimmed line.
CargaDe(raw) == Drop(Strip(raw), IndexOf(Strip(raw), "="))

\* Number of comma-separated fields of a text.
NumCampos(carga) == 1 + Cardinality({k \in 1..Len(carga) : carga[k] = ","})

\* The fields of the payload once the code has removed the prefixes.
CamposDe(raw) == Split(QuitarBasura(CargaDe(raw)), ",")

\* The payload with only the first prefix of the list that matches removed.
UnPrefijoMenos(carga) ==
    IF \E k \in 1..Len(trash) : StartsWith(carga, trash[k])
    THEN Drop(carga, Len(trash[CHOOSE k \in 1..Len(trash) :
                                   /\ StartsWith(carga, trash[k])
                                   /\ \A j \in 1..(k - 1) : ~StartsWith(carga, trash[j])]))
    ELSE carga

\* All thirteen numeric positions of the line convert.
ConversionesOk(raw) ==
    Con(CamposDe(raw), LAMBDA c :
        /\ \A k \in PosInt : ParseInt(P(c, k)).ok
        /\ \A k \in PosFloat : ParseFloat(P(c, k)).ok)

\* A well-formed line: data, at least 17 fields, numeric content where needed.
BienFormada(raw) ==
    /\ ConDatos(raw)
    /\ NumCampos(CargaDe(raw)) >= 17
    /\ ConversionesOk(raw)

\* The integer at a 0-based position of a well-formed line.
Ent(raw, k) == ParseInt(P(CamposDe(raw), k)).val

\* A well-formed line whose date or time components are out of calendar or
\* clock range.
FueraDeRango(raw) ==
    /\ BienFormada(raw)
    /\ \/ Ent(raw, 8) \notin 1..9999
       \/ Ent(raw, 10) \notin 1..12
       \/ Ent(raw, 9) \notin 1..31
       \/ \E k \in {5, 12} : Ent(raw, k) \notin 0..23
       \/ \E k \in {4, 7, 11, 14} : Ent(raw, k) \notin 0..59

----------------------------------------------------------------------------
(* The properties.                                                         *)

\* C1: for every line, at most one of the four prefixes is removed from the
\* payload: the program name of the record is field 0 of the payload without
\* its first matching prefix, even if what remains starts with a prefix.
C1_UnSoloPrefijo ==
    [][PasoLinea /\ Emite =>
         Emitido.nombre_optimizacion
             = Strip(Split(UnPrefijoMenos(CargaDe(LineaEnCurso)), ",")[1])]_vars

\* C2: a line whose date or time components are out of calendar or clock
\* range produces no record.
C2_FueraDeRangoRechazada ==
    [][PasoLinea /\ FueraDeRango(LineaEnCurso) => datos' = datos]_vars

\* The record the code builds from a well-formed line.
RegistroDe(raw) == Registro(CamposDe(raw)).reg

\* The keys of a record.
CamposRegistro ==
    {"nombre_optimizacion", "job_key", "fecha_proceso_str", "hora_inicio_str",
     "hora_fin_str", "largo_mm", "ancho_mm", "espesor_mm", "cantidad_placas"}

\* The reference line of the format and the line of the job-key example.
LineaEjemplo == Linea(Cabeza, Carga(<<>>, NombreBase, CamposBase))

LineaJobA == Linea(Cabeza, Carga(trash[1], <<"J", "O", "B", "_", "A", ".", "2", ".", "1", "0", "0">>, CamposBase))

\* C3: a file of N lines of which M are malformed returns exactly N - M
\* records, and record k is the record of the k-th well-formed line.
C3_ConteoYOrden ==
    pc = "retornado" =>
        LET validas == SelectSeq(lineas, BienFormada)
            M == Cardinality({k \in 1..Len(lineas) : ~BienFormada(lineas[k])})
        IN  /\ retorno.dado
            /\ Len(retorno.df) = Len(lineas) - M
            /\ \A k \in 1..Len(retorno.df) : retorno.df[k] = RegistroDe(validas[k])

C3_Testigo ==
    /\ pc = "retornado"
    /\ Len(lineas) = 3
    /\ BienFormada(lineas[1]) /\ ~BienFormada(lineas[2]) /\ BienFormada(lineas[3])
    /\ Len(retorno.df) = 2
    /\ retorno.df[1] # retorno.df[2]

\* C4: a record enters the output only in a step of the loop, from a line with
\* at least 17 fields whose conversions all succeeded, and it enters whole,
\* with its nine fields.
C4_SoloRegistrosCompletos ==
    [][datos' # datos =>
         /\ PasoLinea
         /\ Emite
         /\ ConDatos(LineaEnCurso)
         /\ NumCampos(CargaDe(LineaEnCurso)) >= 17
         /\ ConversionesOk(LineaEnCurso)
         /\ DOMAIN Emitido = CamposRegistro]_vars

C4_Testigo ==
    /\ pc = "retornado"
    /\ Len(lineas) = 2
    /\ ConDatos(lineas[1])
    /\ NumCampos(CargaDe(lineas[1])) >= 17
    /\ ~ConversionesOk(lineas[1])
    /\ BienFormada(lineas[2])
    /\ Len(retorno.df) = 1
    /\ DOMAIN retorno.df[1] = CamposRegistro

\* C5: a line that is blank, has no '=' or has fewer than 17 fields adds no
\* record and raises nothing; a line of exactly 17 fields with numeric content
\* adds its record.
C5_LineasSinDatos ==
    [][PasoLinea =>
         /\ (~ConDatos(LineaEnCurso) \/ NumCampos(CargaDe(LineaEnCurso)) < 17)
                => (datos' = datos /\ pc' = "bucle")
         /\ (BienFormada(LineaEnCurso) /\ NumCampos(CargaDe(LineaEnCurso)) = 17)
                => Emite]_vars

C5_Testigo ==
    /\ pc = "retornado"
    /\ Len(lineas) = 2
    /\ ConDatos(lineas[1])
    /\ NumCampos(CargaDe(lineas[1])) = 16
    /\ BienFormada(lineas[2])
    /\ NumCampos(CargaDe(lineas[2])) = 17
    /\ Len(retorno.df) = 1

\* C6: a well-formed line adds exactly one record whose name is field 0
\* trimmed, whose length, width and thickness are fields 1, 2, 3 and whose
\* plate count is field 16; the reference line gives ABC123.301, ABC123,
\* 1200, 600, 18 and 50.
C6_CamposPorPosicion ==
    [][PasoLinea /\ BienFormada(LineaEnCurso) =>
         /\ Emite
         /\ Emitido.nombre_optimizacion = Strip(P(CamposDe(LineaEnCurso), 0))
         /\ Emitido.largo_mm = ParseFloat(P(CamposDe(LineaEnCurso), 1)).val
         /\ Emitido.ancho_mm = ParseFloat(P(CamposDe(LineaEnCurso), 2)).val
         /\ Emitido.espesor_mm = ParseFloat(P(CamposDe(LineaEnCurso), 3)).val
         /\ Emitido.cantidad_placas = ParseInt(P(CamposDe(LineaEnCurso), 16)).val
         /\ LineaEnCurso = LineaEjemplo =>
                /\ Emitido.nombre_optimizacion = <<"A", "B", "C", "1", "2", "3", ".", "3", "0", "1">>
                /\ Emitido.job_key = <<"A", "B", "C", "1", "2", "3">>
                /\ Emitido.largo_mm = [esp |-> "", m |-> 12, e |-> 2]
                /\ Emitido.ancho_mm = [esp |-> "", m |-> 6, e |-> 2]
                /\ Emitido.espesor_mm = [esp |-> "", m |-> 18, e |-> 0]
                /\ Emitido.cantidad_placas = 50]_vars

C6_Testigo ==
    /\ pc = "retornado"
    /\ lineas = <<LineaEjemplo>>
    /\ Len(retorno.df) = 1
    /\ retorno.df[1].nombre_optimizacion = <<"A", "B", "C", "1", "2", "3", ".", "3", "0", "1">>
    /\ retorno.df[1].cantidad_placas = 50

\* C7: the job key is the name without its last '.' and what follows it
\* (inner dots stay), the name itself when it has no '.'; name and key are
\* taken from the payload after the prefix is removed (.\prg\JOB_A.2.100
\* gives JOB_A.2).
C7_LlaveHastaUltimoPunto ==
    [][PasoLinea /\ Emite =>
         LET nom == Emitido.nombre_optimizacion
             key == Emitido.job_key
         IN  /\ nom = Strip(P(CamposDe(LineaEnCurso), 0))
             /\ IF Contains(nom, ".")
                THEN /\ Len(key) < Len(nom)
                     /\ key = Take(nom, Len(key))
                     /\ nom[Len(key) + 1] = "."
                     /\ ~Contains(Drop(nom, Len(key) + 1), ".")
                ELSE key = nom
             /\ LineaEnCurso = LineaJobA => key = <<"J", "O", "B", "_", "A", ".", "2">>]_vars

C7_Testigo ==
    /\ pc = "retornado"
    /\ lineas = <<LineaJobA>>
    /\ Len(retorno.df) = 1
    /\ retorno.df[1].nombre_optimizacion = <<"J", "O", "B", "_", "A", ".", "2", ".", "1", "0", "0">>
    /\ retorno.df[1].job_key = <<"J", "O", "B", "_", "A", ".", "2">>

\* C8: in every record the job key is a leading part of the name, and equals
\* the name exactly when the name has no '.'.
C8_LlaveEsPrefijo ==
    \A k \in 1..Len(datos) :
        /\ StartsWith(datos[k].nombre_optimizacion, datos[k].job_key)
        /\ datos[k].job_key = datos[k].nombre_optimizacion
               <=> ~Contains(datos[k].nombre_optimizacion, ".")

C8_Testigo ==
    /\ pc = "retornado"
    /\ Len(datos) = 2
    /\ Contains(datos[1].nombre_optimizacion, ".")
    /\ Len(datos[1].job_key) < Len(datos[1].nombre_optimizacion)
    /\ ~Contains(datos[2].nombre_optimizacion, ".")
    /\ datos[2].job_key = datos[2].nombre_optimizacion

\* A data line whose parse fails: fields are missing or a required position
\* holds no number.
Mala(raw) == ConDatos(raw) /\ ~BienFormada(raw)

NoMala(raw) == ~Mala(raw)

\* The accumulator after the loop has run over the lines ls, from d.
RECURSIVE Extraer(_, _)
Extraer(ls, d) ==
    IF ls = <<>> THEN d
    ELSE Con(Iteracion(Decodificar(Head(ls)), d).d, LAMBDA d1 : Extraer(Tail(ls), d1))

\* C9: a parse failure on a line leaves the accumulator as it was and the loop
\* running, and the records returned are those the file returns without its
\* failing lines.
C9_FalloNoAborta ==
    /\ [][PasoLinea /\ Mala(LineaEnCurso) => datos' = datos /\ pc' = "bucle"]_vars
    /\ [](pc = "retornado" =>
            /\ i = Len(lineas)
            /\ retorno.df = Extraer(SelectSeq(lineas, NoMala), <<>>))

C9_Testigo ==
    /\ pc = "retornado"
    /\ Len(lineas) = 3
    /\ Mala(lineas[1])
    /\ NumCampos(CargaDe(lineas[1])) >= 17
    /\ BienFormada(lineas[2]) /\ BienFormada(lineas[3])
    /\ Len(retorno.df) = 2

\* The file is missing or cannot be read to its end.
Ilegible == ~existe \/ fallaEn > 0

\* C10: with a missing or unreadable file the call never returns: it reads
\* nothing past the failure and hands no result to the caller, not even the
\* records read so far; no other call ends in an exception.
C10_SoloFallaDeArchivo ==
    /\ Ilegible => (pc # "retornado" /\ ~retorno.dado)
    /\ ~existe => (i = 0 /\ datos = <<>>)
    /\ fallaEn > 0 => i < fallaEn
    /\ pc = "excepcion" => (Ilegible /\ ~retorno.dado)

C10_Testigo ==
    /\ pc = "excepcion"
    /\ existe
    /\ fallaEn > 1
    /\ Len(datos) > 0
    /\ ~retorno.dado

----------------------------------------------------------------------------
(* Undecodable bytes.                                                      *)

\* Byte k of a line of bytes is offending: it belongs to no UTF-8 sequence, or
\* it is a continuation byte no lead byte precedes, or a lead byte no
\* continuation byte follows.
Ofensivo(b, k) ==
    \/ b[k] \in BytesInvalidos
    \/ b[k] \in BytesCont /\ (k = 1 \/ b[k - 1] \notin BytesInicio)
    \/ b[k] \in BytesInicio /\ (k = Len(b) \/ b[k + 1] \notin BytesCont)

\* The text of a line of bytes without its offending bytes: every remaining
\* lead byte stands for the character it encodes with the byte after it.
TextoLimpio(b) ==
    SelectSeq([k \in 1..Len(b) |->
                  IF Ofensivo(b, k) THEN "FF"
                  ELSE IF b[k] \in BytesInicio THEN Caracter(b[k], b[k + 1])
                  ELSE b[k]],
              LAMBDA c : c \notin BytesInvalidos \cup BytesCont)

TieneOfensivos(b) == \E k \in 1..Len(b) : Ofensivo(b, k)

\* C11: bytes that are no valid UTF-8 never fail the run: a step over a line
\* that holds them does what it would do on the line without them (it adds
\* the record of the remaining text when that text is well-formed, and
\* nothing otherwise) and the loop goes on with the following line.
C11_BytesInvalidosIgnorados ==
    [][PasoLinea =>
          Con(TextoLimpio(LineaEnCurso), LAMBDA t :
              /\ pc' = "bucle"
              /\ IF BienFormada(t)
                 THEN Emite /\ Emitido = RegistroDe(t)
                 ELSE datos' = datos)]_vars

\* A file of three lines was read to its end: an invalid byte inside the
\* length of the first, only undecodable bytes in the second, a two-byte
\* character and a lead byte cut short in the name of the third.
C11_Testigo ==
    /\ pc = "retornado"
    /\ Len(lineas) = 3
    /\ \A k \in 1..3 : TieneOfensivos(lineas[k])
    /\ lineas[2] = <<"FF", "C3", "\n">>
    /\ Len(retorno.df) = 2
    /\ retorno.df[1].nombre_optimizacion = NombreBase
    /\ retorno.df[1].largo_mm = ParseFloat(<<"1", "2", "0", "0">>).val
    /\ retorno.df[2].nombre_optimizacion = <<"A", "U+00F1", "O", ".", "1">>

----------------------------------------------------------------------------
(* Concurrent calls of procesar_archivo, one per file, interleaved line by *)
(* line.                                                                   *)

MaxLineasConc == 2

\* The callers.
Llamadas == {"a", "b"}

\* The lines of their files: a well-formed line and a line with a
\* non-numeric field.
LineasConc ==
    { Linea(Cabeza, Carga(<<>>, NombreBase, CamposBase)),
      Linea(Cabeza, Carga(<<>>, NombreBase, [CamposBase EXCEPT ![1] = <<"x">>])) }

ArchivosConc == UNION {[1..n -> LineasConc] : n \in 0..MaxLineasConc}

\* Variant of DondeAcumula: one module-level list that every call appends to.
DondeAcumula_Global(c) == "a"

\* Line 14: datos is a local name, bound to a list of the call's own.
DondeAcumula(c) == c

\* Every call is about to start on its file.
InitConc ==
    /\ conc \in [Llamadas -> {[lineas |-> f, pc |-> "inicio", i |-> 0, retorno |-> SinRetorno] :
                                 f \in ArchivosConc}]
    /\ acum = [c \in Llamadas |-> <<>>]
    /\ LlamadaReposo
    /\ EtlReposo
    /\ MigraReposo
    /\ GenReposo

\* Lines 14-15: the call creates its list and opens its file.
Llamar(c) ==
    /\ conc[c].pc = "inicio"
    /\ acum' = [acum EXCEPT ![DondeAcumula(c)] = <<>>]
    /\ conc' = [conc EXCEPT ![c].pc = "bucle"]

\* Variant of PasoConc: reading a line removes it from the file.
PasoConc_Consume(c) ==
    /\ conc[c].pc = "bucle"
    /\ conc[c].lineas # <<>>
    /\ \E it \in {Iteracion(Decodificar(conc[c].lineas[1]), acum[DondeAcumula(c)])} :
           acum' = [acum EXCEPT ![DondeAcumula(c)] = it.d]
    /\ conc' = [conc EXCEPT ![c].lineas = Tail(@), ![c].i = @ + 1]

\* Lines 16-49: one pass of the loop of call c.
PasoConc(c) ==
    /\ conc[c].pc = "bucle"
    /\ conc[c].i < Len(conc[c].lineas)
    /\ \E it \in {Iteracion(Decodificar(conc[c].lineas[conc[c].i + 1]), acum[DondeAcumula(c)])} :
           acum' = [acum EXCEPT ![DondeAcumula(c)] = it.d]
    /\ conc' = [conc EXCEPT ![c].i = @ + 1]

\* Line 51: the file is exhausted and the call returns its frame.
RetornarConc(c) ==
    /\ conc[c].pc = "bucle"
    /\ conc[c].i = Len(conc[c].lineas)
    /\ conc' = [conc EXCEPT ![c].pc = "retornado",
                            ![c].retorno = [dado |-> TRUE, df |-> acum[DondeAcumula(c)]]]
    /\ acum' = acum

NextConc ==
    \/ \E c \in Llamadas : Llamar(c) /\ UNCHANGED <<varsLlamada, varsEtl, varsMigra, varsGen>>
    \/ \E c \in Llamadas : PasoConc(c) /\ UNCHANGED <<varsLlamada, varsEtl, varsMigra, varsGen>>
    \/ \E c \in Llamadas : RetornarConc(c) /\ UNCHANGED <<varsLlamada, varsEtl, varsMigra, varsGen>>

SpecConc == InitConc /\ [][NextConc]_vars

\* What a call on each file returns when it runs alone.
Solo == [f \in ArchivosConc |-> Extraer(f, <<>>)]

\* C12: concurrent calls on different files are independent: under every
\* interleaving of their per-line steps, each call has accumulated the
\* records of the lines it has read so far and returns exactly the records it
\* returns when it runs alone.
C12_LlamadasIndependientes ==
    \A c \in Llamadas :
        /\ conc[c].pc = "bucle" => acum[c] = Solo[Take(conc[c].lineas, conc[c].i)]
        /\ conc[c].pc = "retornado" =>
               conc[c].retorno = [dado |-> TRUE, df |-> Solo[conc[c].lineas]]

\* Call a has returned the two records of its file while call b, on a
\* different file, is half-way with one record.
C12_Testigo ==
    /\ conc["a"].pc = "retornado"
    /\ Len(conc["a"].retorno.df) = 2
    /\ conc["b"].pc = "bucle"
    /\ conc["b"].i = 1
    /\ Len(conc["b"].lineas) = 2
    /\ Len(acum["b"]) = 1
    /\ conc["b"].lineas # conc["a"].lineas

Producidas(f) == Cardinality({k \in 1..Len(f) : BienFormada(Decodificar(f[k]))})

Saltadas(f) == Len(f) - Producidas(f)

\* C18: the extraction exposes, per file, how many lines were skipped and how
\* many produced a record: what a call hands to its caller determines both
\* counts, so two calls that return the same have skipped as many lines and
\* have produced as many records.
C18_ConteosExpuestos ==
    \A c, d \in Llamadas :
        /\ conc[c].pc = "retornado"
        /\ conc[d].pc = "retornado"
        /\ conc[c].retorno = conc[d].retorno
        => /\ Producidas(conc[c].lineas) = Producidas(conc[d].lineas)
           /\ Saltadas(conc[c].lineas) = Saltadas(conc[d].lineas)

----------------------------------------------------------------------------
(* Date and times.                                                         *)

\* The decimal digits of a natural number, with zeros in front up to w digits.
Cero(v, w) ==
    LET d == NatStr(v)
        z == w - Len(d)
    IN  IF z <= 0 THEN d ELSE [k \in 1..w |-> IF k <= z THEN "0" ELSE d[k - z]]

\* 0-based positions of the date and time components.
PosFechaHora == {4, 5, 7, 8, 9, 10, 11, 12, 14}

\* C14: the date of a record is year-month-day from fields 8, 10, 9,
\* zero-padded to 4, 2, 2 digits, its start time hour:minute:second from
\* fields 5, 4, 7 and its end time from fields 12, 11, 14, each zero-padded
\* to 2 digits (components that are no negative numbers); the reference line
\* gives 2025-08-15, 10:00:05 and 12:20:25.
C14_FechaYHoras ==
    [][PasoLinea /\ Emite /\ (\A k \in PosFechaHora : Ent(LineaEnCurso, k) >= 0) =>
         Con([k \in PosFechaHora |-> Ent(LineaEnCurso, k)], LAMBDA n :
             /\ Emitido.fecha_proceso_str =
                    Cero(n[8], 4) \o <<"-">> \o Cero(n[10], 2) \o <<"-">> \o Cero(n[9], 2)
             /\ Emitido.hora_inicio_str =
                    Cero(n[5], 2) \o <<":">> \o Cero(n[4], 2) \o <<":">> \o Cero(n[7], 2)
             /\ Emitido.hora_fin_str =
                    Cero(n[12], 2) \o <<":">> \o Cero(n[11], 2) \o <<":">> \o Cero(n[14], 2)
             /\ LineaEnCurso = LineaEjemplo =>
                    /\ Emitido.fecha_proceso_str = <<"2", "0", "2", "5", "-", "0", "8", "-", "1", "5">>
                    /\ Emitido.hora_inicio_str = <<"1", "0", ":", "0", "0", ":", "0", "5">>
                    /\ Emitido.hora_fin_str = <<"1", "2", ":", "2", "0", ":", "2", "5">>)]_vars

\* The reference line was read and its record returned with those texts.
C14_Testigo ==
    /\ pc = "retornado"
    /\ lineas = <<LineaEjemplo>>
    /\ Len(retorno.df) = 1
    /\ retorno.df[1].fecha_proceso_str = <<"2", "0", "2", "5", "-", "0", "8", "-", "1", "5">>
    /\ retorno.df[1].hora_inicio_str = <<"1", "0", ":", "0", "0", ":", "0", "5">>
    /\ retorno.df[1].hora_fin_str = <<"1", "2", ":", "2", "0", ":", "2", "5">>

----------------------------------------------------------------------------
(* Prefix matching.                                                        *)

\* The four prefixes in the order the specification gives:
\* .\prg\   C:\WinCut\prg\   .\   C:WinCut\prg\
PrefijosEnOrden ==
    << <<".", "\\", "p", "r", "g", "\\">>,
       <<"C", ":", "\\", "W", "i", "n", "C", "u", "t", "\\", "p", "r", "g", "\\">>,
       <<".", "\\">>,
       <<"C", ":", "W", "i", "n", "C", "u", "t", "\\", "p", "r", "g", "\\">> >>

\* The prefixes a payload starts with, character for character.
Coinciden(carga) ==
    {k \in 1..Len(PrefijosEnOrden) :
        /\ Len(carga) >= Len(PrefijosEnOrden[k])
        /\ \A j \in 1..Len(PrefijosEnOrden[k]) : carga[j] = PrefijosEnOrden[k][j]}

\* q is what remains of r after a number of its leading characters.
EsResto(q, r) == Len(q) <= Len(r) /\ q = Drop(r, Len(r) - Len(q))

LineaOtraCaja ==
    Linea(Cabeza, Carga(<<"c", ":", "\\", "w", "i", "n", "c", "u", "t", "\\", "p", "r", "g", "\\">>,
                        <<"J", "O", "B">>, CamposBase))

NombreOtraCaja ==
    <<"c", ":", "\\", "w", "i", "n", "c", "u", "t", "\\", "p", "r", "g", "\\", "J", "O", "B">>

\* C15: a prefix is removed only when the payload starts with it exactly,
\* letter case included, at its first character: a payload that starts with
\* none of the four (one with a blank in front, or c:\wincut\prg\ in small
\* letters, for instance) is left as it is; when several prefixes match
\* the start, the earliest in the order .\prg\, C:\WinCut\prg\, .\,
\* C:WinCut\prg\ is applied, so what the record's name is read from is a rest
\* of the payload without that prefix.
C15_PrefijoExactoYPrimero ==
    [][PasoLinea /\ ConDatos(LineaEnCurso) =>
         Con(CargaDe(LineaEnCurso), LAMBDA c :
         Con(QuitarBasura(c), LAMBDA q :
             /\ Coinciden(c) = {} => q = c
             /\ Coinciden(c) # {} =>
                    EsResto(q, Drop(c, Len(PrefijosEnOrden[
                        CHOOSE k \in Coinciden(c) : \A m \in Coinciden(c) : k <= m])))
             /\ Emite => Emitido.nombre_optimizacion = Strip(Split(q, ",")[1])
             /\ LineaEnCurso = LineaOtraCaja =>
                    /\ Emite
                    /\ Emitido.nombre_optimizacion = NombreOtraCaja))]_vars

\* The line whose payload starts with c:\wincut\prg\ was read and its
\* record keeps that text in its name.
C15_Testigo ==
    /\ pc = "retornado"
    /\ lineas = <<LineaOtraCaja>>
    /\ Len(retorno.df) = 1
    /\ retorno.df[1].nombre_optimizacion = NombreOtraCaja
    /\ retorno.df[1].job_key = NombreOtraCaja

----------------------------------------------------------------------------
(* The payload.                                                            *)

\* The records a payload gives by itself: the record of its fields when they
\* are at least 17 with numbers where numbers are read, none otherwise.
PorCarga(carga) ==
    Con(Split(QuitarBasura(carga), ","), LAMBDA parts :
        IF /\ Len(parts) >= 17
           /\ \A k \in PosInt : ParseInt(P(parts, k)).ok
           /\ \A k \in PosFloat : ParseFloat(P(parts, k)).ok
        THEN <<Registro(parts).reg>>
        ELSE <<>>)

LineaDosIguales == Linea(<<"A", "=", "B">>, Carga(<<>>, NombreBase, CamposBase))

\* C16: the payload is everything after the first '=' of the line: what a
\* step adds depends on that text alone, never on the text before the first
\* '=', and a further '=' stays inside the payload and its fields (the line
\* A=B=ABC123.301,... gives the name B=ABC123.301).
C16_CargaTrasPrimerIgual ==
    [][PasoLinea /\ ConDatos(LineaEnCurso) =>
         /\ datos' = datos \o PorCarga(CargaDe(LineaEnCurso))
         /\ LineaEnCurso = LineaDosIguales =>
                /\ Emite
                /\ Emitido.nombre_optimizacion =
                       <<"B", "=", "A", "B", "C", "1", "2", "3", ".", "3", "0", "1">>]_vars

\* The line with two '=' was read and its record returned; the second '=' is
\* in the name.
C16_Testigo ==
    /\ pc = "retornado"
    /\ lineas = <<LineaDosIguales>>
    /\ Len(retorno.df) = 1
    /\ retorno.df[1].nombre_optimizacion = <<"B", "=", "A", "B", "C", "1", "2", "3", ".", "3", "0", "1">>
    /\ retorno.df[1].job_key = <<"B", "=", "A", "B", "C", "1", "2", "3">>

----------------------------------------------------------------------------
(* The job key, applied twice.                                             *)

\* C17: the job key of a job key that has no '.' is that key itself: for
\* every record whose key has no '.', deriving the key once more from the key
\* changes nothing.
C17_LlaveIdempotente ==
    \A k \in 1..Len(datos) :
        ~Contains(datos[k].job_key, ".") => JobKey(datos[k].job_key) = datos[k].job_key

\* A record was returned whose name has a '.' and whose key has none.
C17_Testigo ==
    /\ pc = "retornado"
    /\ Len(retorno.df) = 1
    /\ Contains(retorno.df[1].nombre_optimizacion, ".")
    /\ retorno.df[1].job_key = <<"A", "B", "C", "1", "2", "3">>
    /\ JobKey(retorno.df[1].job_key) = <<"A", "B", "C", "1", "2", "3">>

----------------------------------------------------------------------------
(* The ETL run: main of src/etl_secc.py.                                   *)

MaxArchivos == 2

MaxCorridas == 2

\* The log files that may lie in the input folder, by name, with their
\* lines: one with a well-formed and a malformed line, one with a well-formed
\* line of another job, one without data lines, one whose only record has
\* month 13.
Contenido ==
    [a |-> << Linea(Cabeza, Carga(<<>>, NombreBase, CamposBase)),
              Linea(Cabeza, Carga(<<>>, NombreBase, [CamposBase EXCEPT ![1] = <<"x">>])) >>,
     b |-> << Linea(Cabeza, Carga(trash[1], <<"J", "O", "B">>, [CamposBase EXCEPT ![16] = <<"7">>])) >>,
     c |-> << <<"H", "E", "A", "D", "E", "R", ",", "1", "\n">> >>,
     d |-> << Linea(Cabeza, Carga(<<>>, NombreBase, [CamposBase EXCEPT ![10] = <<"1", "3">>])) >>]

NombresArchivo == DOMAIN Contenido

\* Lists without repetition of at most n file names.
Listados(n) ==
    {l \in UNION {[1..m -> NombresArchivo] : m \in 0..n} :
        \A j, k \in 1..Len(l) : j # k => l[j] # l[k]}

\* procesar_archivo(os.path.join(ENTRADA_FOLDER, f)) on a readable file.
Marco(f) == Extraer(Contenido[f], <<>>)

\* Variant of Concat: the frames are joined last to first.
RECURSIVE Concat_AlReves(_)
Concat_AlReves(marcos) ==
    IF marcos = <<>> THEN <<>>
    ELSE Concat_AlReves(Tail(marcos)) \o Head(marcos)

\* Line 31: pd.concat(frames, ignore_index=True), the rows of the frames one
\* frame after the other.
RECURSIVE Concat(_)
Concat(marcos) ==
    IF marcos = <<>> THEN <<>>
    ELSE Head(marcos) \o Concat(Tail(marcos))

\* A text of digits only.
SoloDigitos(t) == Len(t) > 0 /\ \A j \in 1..Len(t) : IsDigit(t[j])

\* The three numbers of a text of digit groups joined by sep; ok is false
\* when the text is not three groups of digits.
Grupos(texto, sep) ==
    Con(Split(texto, sep), LAMBDA g :
        IF Len(g) = 3 /\ \A k \in 1..3 : SoloDigitos(g[k])
        THEN [ok |-> TRUE, n |-> [k \in 1..3 |-> DigitRunVal(g[k])]]
        ELSE [ok |-> FALSE, n |-> <<0, 0, 0>>])

Bisiesto(a) == (a % 4 = 0 /\ a % 100 # 0) \/ a % 400 = 0

DiasDelMes(a, m) ==
    IF m = 2 THEN (IF Bisiesto(a) THEN 29 ELSE 28)
    ELSE IF m \in {4, 6, 9, 11} THEN 30 ELSE 31

\* Lines 40-42: pd.to_datetime(...).dt.date and .dt.time of the texts of a
\* record: ok is false when a text names no calendar date or no time of day.
AFecha(texto) ==
    Con(Grupos(texto, "-"), LAMBDA g :
        [ok |-> /\ g.ok
                /\ g.n[1] \in 1..9999
                /\ g.n[2] \in 1..12
                /\ g.n[3] \in 1..DiasDelMes(g.n[1], g.n[2]),
         val |-> g.n])

AHora(texto) ==
    Con(Grupos(texto, ":"), LAMBDA g :
        [ok |-> g.ok /\ g.n[1] \in 0..23 /\ g.n[2] \in 0..59 /\ g.n[3] \in 0..59,
         val |-> g.n])

Convertible(reg) ==
    /\ AFecha(reg.fecha_proceso_str).ok
    /\ AHora(reg.hora_inicio_str).ok
    /\ AHora(reg.hora_fin_str).ok

\* Lines 40-49: the row of df_final of a record.
Fila(reg) ==
    [nombre_optimizacion |-> reg.nombre_optimizacion,
     job_key             |-> reg.job_key,
     fecha_proceso       |-> AFecha(reg.fecha_proceso_str).val,
     hora_inicio         |-> AHora(reg.hora_inicio_str).val,
     hora_fin            |-> AHora(reg.hora_fin_str).val,
     largo_mm            |-> reg.largo_mm,
     ancho_mm            |-> reg.ancho_mm,
     espesor_mm          |-> reg.espesor_mm,
     cantidad_placas     |-> reg.cantidad_placas]

\* The locals of main when a run starts.
LocalesIniciales(n) ==
    [pc |-> "motor", corrida |-> n, archivos |-> <<>>, marcos |-> <<>>,
     df_total |-> <<>>, df_final |-> <<>>,
     rows_inserted |-> [asignada |-> FALSE, val |-> 0], k |-> 0, ret |-> "corriendo"]

\* The first run is about to start; the input folder holds some files, the
\* table and the processed folder are empty.
InitEtl ==
    /\ entrada \in Listados(MaxArchivos)
    /\ procesados = <<>>
    /\ tabla = <<>>
    /\ etl = LocalesIniciales(1)
    /\ LlamadaReposo
    /\ ConcReposo
    /\ MigraReposo
    /\ GenReposo

\* Lines 72-75: an exception raised inside the try block ends the run with
\* False.
Fallar == etl' = [etl EXCEPT !.pc = "fin", !.ret = "False"]

\* Line 20: create_engine(PG_CONN) gives the engine.
CrearMotor ==
    /\ etl.pc = "motor"
    /\ etl' = [etl EXCEPT !.pc = "listar"]
    /\ UNCHANGED <<entrada, procesados, tabla>>

\* Line 20 raises (no or bad connection string); the call is outside the try
\* block, so the exception reaches the caller of main.
CrearMotorFalla ==
    /\ etl.pc = "motor"
    /\ etl' = [etl EXCEPT !.pc = "fin", !.ret = "excepcion"]
    /\ UNCHANGED <<entrada, procesados, tabla>>

\* Lines 25-29: the files of the input folder are listed; without files the
\* run ends with a bare return.
Listar ==
    /\ etl.pc = "listar"
    /\ etl' = IF entrada = <<>>
              THEN [etl EXCEPT !.pc = "fin", !.ret = "None"]
              ELSE [etl EXCEPT !.pc = "extraer", !.archivos = entrada]
    /\ UNCHANGED <<entrada, procesados, tabla>>

\* Line 25 raises (the input folder cannot be listed).
ListarFalla ==
    /\ etl.pc = "listar"
    /\ Fallar
    /\ UNCHANGED <<entrada, procesados, tabla>>

\* Line 31, one element of the comprehension: the next file is extracted.
ExtraerArchivo ==
    /\ etl.pc = "extraer"
    /\ Len(etl.marcos) < Len(etl.archivos)
    /\ etl' = [etl EXCEPT !.marcos = Append(@, Marco(etl.archivos[Len(etl.marcos) + 1]))]
    /\ UNCHANGED <<entrada, procesados, tabla>>

\* Line 31: procesar_archivo raises on the next file (it cannot be read).
ExtraerFalla ==
    /\ etl.pc = "extraer"
    /\ Len(etl.marcos) < Len(etl.archivos)
    /\ Fallar
    /\ UNCHANGED <<entrada, procesados, tabla>>

\* Lines 31-37: all frames are there and are concatenated; a batch without
\* rows ends the run with a bare return.
Concatenar ==
    /\ etl.pc = "extraer"
    /\ Len(etl.marcos) = Len(etl.archivos)
    /\ \E df \in {Concat(etl.marcos)} :
           etl' = IF df = <<>>
                  THEN [etl EXCEPT !.pc = "fin", !.ret = "None", !.df_total = df]
                  ELSE [etl EXCEPT !.pc = "transformar", !.df_total = df]
    /\ UNCHANGED <<entrada, procesados, tabla>>

\* Lines 40-49: every text of the batch is converted and df_final built.
Transformar ==
    /\ etl.pc = "transformar"
    /\ \A j \in 1..Len(etl.df_total) : Convertible(etl.df_total[j])
    /\ etl' = [etl EXCEPT !.pc = "cargar",
                          !.df_final = [j \in 1..Len(etl.df_total) |-> Fila(etl.df_total[j])]]
    /\ UNCHANGED <<entrada, procesados, tabla>>

\* Variant of TransformarFalla: the rows whose texts do not convert are left
\* out and the run goes on with the others.
TransformarFalla_Descarta ==
    /\ etl.pc = "transformar"
    /\ \E j \in 1..Len(etl.df_total) : ~Convertible(etl.df_total[j])
    /\ \E buenas \in {SelectSeq(etl.df_total, Convertible)} :
           etl' = [etl EXCEPT !.pc = "cargar",
                              !.df_final = [j \in 1..Len(buenas) |-> Fila(buenas[j])]]
    /\ UNCHANGED <<entrada, procesados, tabla>>

\* Lines 40-42: pd.to_datetime raises on a text of the batch.
TransformarFalla ==
    /\ etl.pc = "transformar"
    /\ \E j \in 1..Len(etl.df_total) : ~Convertible(etl.df_total[j])
    /\ Fallar
    /\ UNCHANGED <<entrada, procesados, tabla>>

\* Variant of CargarFalla: the failure of to_sql is passed over and the run
\* goes on to move the files.
CargarFalla_Sigue ==
    /\ etl.pc = "cargar"
    /\ etl' = [etl EXCEPT !.pc = "crear"]
    /\ UNCHANGED <<entrada, procesados, tabla>>

\* Lines 53-60: to_sql appends the rows of df_final to the table and returns
\* their number, which is bound to rows_inserted.
Cargar ==
    /\ etl.pc = "cargar"
    /\ tabla' = tabla \o etl.df_final
    /\ etl' = [etl EXCEPT !.pc = "crear",
                          !.rows_inserted = [asignada |-> TRUE, val |-> Len(etl.df_final)]]
    /\ UNCHANGED <<entrada, procesados>>

\* Lines 53-59: to_sql raises; its transaction leaves the table as it was.
CargarFalla ==
    /\ etl.pc = "cargar"
    /\ Fallar
    /\ UNCHANGED <<entrada, procesados, tabla>>

\* Line 63: os.makedirs(PROCESADOS_FOLDER, exist_ok=True).
CrearCarpeta ==
    /\ etl.pc = "crear"
    /\ etl' = [etl EXCEPT !.pc = "mover"]
    /\ UNCHANGED <<entrada, procesados, tabla>>

\* Line 63 raises.
CrearCarpetaFalla ==
    /\ etl.pc = "crear"
    /\ Fallar
    /\ UNCHANGED <<entrada, procesados, tabla>>

\* Lines 64-68, one pass of the loop: the next file of the list is moved to
\* the processed folder.
Mover ==
    /\ etl.pc = "mover"
    /\ etl.k < Len(etl.archivos)
    /\ entrada' = SelectSeq(entrada, LAMBDA f : f # etl.archivos[etl.k + 1])
    /\ procesados' = Append(procesados, etl.archivos[etl.k + 1])
    /\ etl' = [etl EXCEPT !.k = @ + 1]
    /\ UNCHANGED tabla

\* Line 67: shutil.move raises on the next file.
MoverFalla ==
    /\ etl.pc = "mover"
    /\ etl.k < Len(etl.archivos)
    /\ Fallar
    /\ UNCHANGED <<entrada, procesados, tabla>>

\* Lines 70, 77: every file is moved and main returns True.
Terminar ==
    /\ etl.pc = "mover"
    /\ etl.k = Len(etl.archivos)
    /\ etl' = [etl EXCEPT !.pc = "fin", !.ret = "True"]
    /\ UNCHANGED <<entrada, procesados, tabla>>

\* Line 81: main is run again, on what the run before left.
Arrancar ==
    /\ etl.pc = "fin"
    /\ etl.corrida < MaxCorridas
    /\ etl' = LocalesIniciales(etl.corrida + 1)
    /\ UNCHANGED <<entrada, procesados, tabla>>

NextEtl ==
    \/ CrearMotor /\ UNCHANGED <<varsLlamada, varsConc, varsMigra, varsGen>>
    \/ CrearMotorFalla /\ UNCHANGED <<varsLlamada, varsConc, varsMigra, varsGen>>
    \/ Listar /\ UNCHANGED <<varsLlamada, varsConc, varsMigra, varsGen>>
    \/ ListarFalla /\ UNCHANGED <<varsLlamada, varsConc, varsMigra, varsGen>>
    \/ ExtraerArchivo /\ UNCHANGED <<varsLlamada, varsConc, varsMigra, varsGen>>
    \/ ExtraerFalla /\ UNCHANGED <<varsLlamada, varsConc, varsMigra, varsGen>>
    \/ Concatenar /\ UNCHANGED <<varsLlamada, varsConc, varsMigra, varsGen>>
    \/ Transformar /\ UNCHANGED <<varsLlamada, varsConc, varsMigra, varsGen>>
    \/ TransformarFalla /\ UNCHANGED <<varsLlamada, varsConc, varsMigra, varsGen>>
    \/ Cargar /\ UNCHANGED <<varsLlamada, varsConc, varsMigra, varsGen>>
    \/ CargarFalla /\ UNCHANGED <<varsLlamada, varsConc, varsMigra, varsGen>>
    \/ CrearCarpeta /\ UNCHANGED <<varsLlamada, varsConc, varsMigra, varsGen>>
    \/ CrearCarpetaFalla /\ UNCHANGED <<varsLlamada, varsConc, varsMigra, varsGen>>
    \/ Mover /\ UNCHANGED <<varsLlamada, varsConc, varsMigra, varsGen>>
    \/ MoverFalla /\ UNCHANGED <<varsLlamada, varsConc, varsMigra, varsGen>>
    \/ Terminar /\ UNCHANGED <<varsLlamada, varsConc, varsMigra, varsGen>>
    \/ Arrancar /\ UNCHANGED <<varsLlamada, varsConc, varsMigra, varsGen>>

SpecEtl == InitEtl /\ [][NextEtl]_vars

\* What the extraction of each file gives by itself, and the rows of the
\* table that come of it.
MarcoDe == [f \in NombresArchivo |-> Marco(f)]

FilasDe == [f \in NombresArchivo |-> [j \in 1..Len(MarcoDe[f]) |-> Fila(MarcoDe[f][j])]]

\* Number of records of the files before the j-th of a list.
RECURSIVE Antes(_, _)
Antes(fs, j) == IF j <= 1 THEN 0 ELSE Antes(fs, j - 1) + Len(MarcoDe[fs[j - 1]])

C20_ALoSumoUnaVez ==
    \A f \in NombresArchivo :
        \A r \in 1..Len(FilasDe[f]) :
            Cardinality({j \in 1..Len(tabla) : tabla[j] = FilasDe[f][r]})
                <= Cardinality({j \in 1..Len(FilasDe[f]) : FilasDe[f][j] = FilasDe[f][r]})

----------------------------------------------------------------------------
(* Order of insert and move in a run.                                      *)

\* The table ends with the rows t.
TerminaCon(t) ==
    /\ Len(t) <= Len(tabla)
    /\ \A j \in 1..Len(t) : tabla[Len(tabla) - Len(t) + j] = t[j]

\* C21: in a run, a file leaves the input folder for the processed folder
\* only after the batch insert has returned (rows_inserted is bound, and the
\* table then ends with the rows of the batch); a run that ends without
\* having inserted has moved no file and leaves the input folder as it
\* listed it.
C21_MoverTrasInsertar ==
    /\ [][(entrada' # entrada \/ procesados' # procesados) =>
              /\ etl.rows_inserted.asignada
              /\ etl.df_final # <<>>
              /\ TerminaCon(etl.df_final)]_vars
    /\ [][tabla' # tabla <=> (~etl.rows_inserted.asignada /\ etl'.rows_inserted.asignada)]_vars
    /\ [](etl.pc = "fin" /\ ~etl.rows_inserted.asignada =>
              /\ etl.k = 0
              /\ etl.archivos # <<>> => entrada = etl.archivos)

\* In a run over two files the insert has returned and the first file has
\* been moved; the second is still in the input folder.
C21_Testigo ==
    /\ etl.pc = "mover"
    /\ etl.k = 1
    /\ etl.rows_inserted = [asignada |-> TRUE, val |-> 2]
    /\ Len(etl.archivos) = 2
    /\ entrada = <<etl.archivos[2]>>
    /\ procesados = <<etl.archivos[1]>>
    /\ tabla = etl.df_final

----------------------------------------------------------------------------
(* Fields the extraction does not read.                                    *)

\* 0-based positions of the fields a record is built from.
Consumidas == {0, 1, 2, 3, 4, 5, 7, 8, 9, 10, 11, 12, 14, 16}

\* Texts joined by commas.
RECURSIVE Juntar(_)
Juntar(campos) ==
    IF campos = <<>> THEN <<>>
    ELSE IF Len(campos) = 1 THEN campos[1]
    ELSE campos[1] \o <<",">> \o Juntar(Tail(campos))

\* A data line with every field at a position that is not consumed emptied:
\* the same head, the same number of fields, the same consumed fields.
Neutra(raw) ==
    Con(Split(CargaDe(raw), ","), LAMBDA campos :
        Take(Strip(raw), IndexOf(Strip(raw), "="))
            \o Juntar([k \in 1..Len(campos) |->
                          IF (k - 1) \in Consumidas THEN campos[k] ELSE <<>>]))

LineaCampo6 == Linea(Cabeza, Carga(<<>>, NombreBase, [CamposBase EXCEPT ![6] = <<"x">>]))

\* C22: the contents of the fields at positions 6, 13, 15 and above 16 never
\* influence the result: a step over a data line adds what it adds for the
\* line with those fields emptied, so two lines that differ only there are
\* both dropped or give the same record.
C22_CamposNoLeidos ==
    [][PasoLinea /\ ConDatos(LineaEnCurso) =>
          /\ datos' = Iteracion(Neutra(LineaEnCurso), datos).d
          /\ LineaEnCurso = LineaCampo6 => Emite /\ Emitido = RegistroDe(LineaEjemplo)]_vars

\* The reference line with the text x at position 6 was read and gave the
\* record of the reference line.
C22_Testigo ==
    /\ pc = "retornado"
    /\ lineas = <<LineaCampo6>>
    /\ Neutra(LineaCampo6) # Strip(LineaCampo6)
    /\ retorno.df = <<RegistroDe(LineaEjemplo)>>

----------------------------------------------------------------------------
(* Names and prefixes.                                                     *)

\* The text starts with none of the four prefixes.
SinPrefijo(texto) == Coinciden(texto) = {}

\* What is left of a payload without the earliest prefix it starts with.
SinElPrimero(carga) ==
    IF Coinciden(carga) = {} THEN carga
    ELSE Drop(carga, Len(PrefijosEnOrden[
             CHOOSE k \in Coinciden(carga) : \A m \in Coinciden(carga) : k <= m]))

\* C23: the name of every emitted record starts with none of the four
\* prefixes .\prg\, C:\WinCut\prg\, .\ and C:WinCut\prg\.
C23_NombreSinPrefijo ==
    \A k \in 1..Len(datos) : SinPrefijo(datos[k].nombre_optimizacion)

\* C23, as it holds: the name of an emitted record starts with none of the
\* four prefixes whenever the payload carries at most one prefix, at its very
\* start: that is, when the first field of the payload without the earliest
\* prefix it starts with, trimmed, starts with none. A prefix that stands
\* behind blanks or behind a removed prefix may stay in the name.
C23_SinPrefijoConUnoSolo ==
    [][PasoLinea /\ Emite
          /\ SinPrefijo(Strip(Split(SinElPrimero(CargaDe(LineaEnCurso)), ",")[1]))
          => SinPrefijo(Emitido.nombre_optimizacion)]_vars

\* The line with the prefix C:\WinCut\prg\ before a plain name was read and
\* gave a record whose name starts with no prefix.
C23_Testigo ==
    /\ pc = "retornado"
    /\ lineas = <<Linea(Cabeza, Carga(PrefijosEnOrden[2], <<"J", "O", "B">>, CamposBase))>>
    /\ Len(retorno.df) = 1
    /\ retorno.df[1].nombre_optimizacion = <<"J", "O", "B">>
    /\ SinPrefijo(retorno.df[1].nombre_optimizacion)

----------------------------------------------------------------------------
(* A batch with a text that does not convert.                              *)

\* A record extracted in the run in progress carries a date or time text
\* that does not convert.
LoteMalo ==
    \E m \in 1..Len(etl.marcos) :
        \E j \in 1..Len(etl.marcos[m]) : ~Convertible(etl.marcos[m][j])

\* C24: the load is all-or-nothing over the batch: once a run has extracted
\* a record, of any file, whose date or time text does not convert, it
\* inserts no record of any file, moves no file, and ends by returning False.
C24_TodoONada ==
    /\ [][LoteMalo =>
              tabla' = tabla /\ entrada' = entrada /\ procesados' = procesados]_vars
    /\ [](LoteMalo =>
              /\ ~etl.rows_inserted.asignada
              /\ etl.k = 0
              /\ entrada = etl.archivos
              /\ etl.pc \in {"extraer", "transformar", "fin"}
              /\ etl.ret = IF etl.pc = "fin" THEN "False" ELSE "corriendo")

\* A run over the files a and d has ended: the record of a converts, that of
\* d has month 13; the table is empty and both files are in the input folder.
C24_Testigo ==
    /\ etl.pc = "fin"
    /\ etl.ret = "False"
    /\ etl.archivos = <<"a", "d">>
    /\ Len(etl.df_total) = 2
    /\ Convertible(etl.df_total[1])
    /\ ~Convertible(etl.df_total[2])
    /\ tabla = <<>>
    /\ entrada = <<"a", "d">>
    /\ procesados = <<>>

----------------------------------------------------------------------------
(* What main hands to its caller.                                          *)

\* C25: main never propagates an exception to its caller: a run ends with
\* True, False or a bare return, whatever step fails, and with True only
\* when the insert has returned and every listed file has been moved.
C25_NuncaPropaga ==
    /\ etl.ret \in {"corriendo", "True", "False", "None"}
    /\ etl.ret = "True" =>
           /\ etl.rows_inserted.asignada
           /\ etl.k = Len(etl.archivos)
           /\ \A j \in 1..Len(etl.archivos) :
                  /\ \A m \in 1..Len(entrada) : entrada[m] # etl.archivos[j]
                  /\ \E m \in 1..Len(procesados) : procesados[m] = etl.archivos[j]

----------------------------------------------------------------------------
(* The migration (migrate_to_supabase.py): main runs test_connection,      *)
(* create_schema_supabase and migrate_data.  A row is its id and the       *)
(* database it was written in; a statement of init_database.sql is a       *)
(* comment ("--") or a schema definition ("sql"), which defines tables and *)
(* touches no row.                                                         *)

MaxFilas == 2

MaxSentencias == 2

FilaLocal(k) == [id |-> k, nombre |-> "local"]

\* The local table: rows 1..n in the order of ORDER BY id (line 60).
TablasLocales == { [k \in 1..n |-> FilaLocal(k)] : n \in 0..MaxFilas }

\* What the target table holds before the migration: nothing, or a row of
\* an earlier load.
TablasDestino == { <<>>, <<[id |-> 1, nombre |-> "previa"]>> }

\* Line 33: the non-blank statements of the schema script, in order.
Guiones == UNION { [1..n -> {"sql", "--"}] : n \in 0..MaxSentencias }

\* main is about to call test_connection (line 119).
MigInicial(sentencias) ==
    [pc |-> "test_local", ret_test |-> "sin_llamar", ret_schema |-> "sin_llamar",
     ret_migrate |-> "sin_llamar", salida |-> "corriendo",
     statements |-> sentencias, s |-> 0, ejecutadas |-> {}, fallidas |-> {},
     df |-> <<>>, previo |-> <<>>]

InitMigra ==
    /\ origen \in TablasLocales
    /\ destino \in TablasDestino
    /\ mig \in { MigInicial(g) : g \in Guiones }
    /\ LlamadaReposo
    /\ ConcReposo
    /\ EtlReposo
    /\ GenReposo

\* The step paso returns False and main leaves with sys.exit(1)
\* (lines 119-121, 124-126, 129-131).
Abortar(m, paso) == [m EXCEPT ![paso] = "False", !.pc = "fin", !.salida = "exit_1"]

\* Lines 93-97: the local connection answers SELECT 1.
ProbarLocal ==
    /\ mig.pc = "test_local"
    /\ mig' = [mig EXCEPT !.pc = "test_supabase"]
    /\ UNCHANGED <<origen, destino>>

\* Lines 98-100.
ProbarLocalFalla ==
    /\ mig.pc = "test_local"
    /\ mig' = Abortar(mig, "ret_test")
    /\ UNCHANGED <<origen, destino>>

\* Lines 103-107, 112: the target connection answers; test_connection
\* returns True and main calls create_schema_supabase.
ProbarSupabase ==
    /\ mig.pc = "test_supabase"
    /\ mig' = [mig EXCEPT !.pc = "esquema_abrir", !.ret_test = "True"]
    /\ UNCHANGED <<origen, destino>>

\* Lines 108-110.
ProbarSupabaseFalla ==
    /\ mig.pc = "test_supabase"
    /\ mig' = Abortar(mig, "ret_test")
    /\ UNCHANGED <<origen, destino>>

\* Lines 24-28: the engine is created and init_database.sql is read.
AbrirEsquema ==
    /\ mig.pc = "esquema_abrir"
    /\ mig' = [mig EXCEPT !.pc = "esquema_conectar"]
    /\ UNCHANGED <<origen, destino>>

\* A failure of the schema step that main answers by going on with the
\* migration.
AbrirEsquemaFalla_Sigue ==
    /\ mig.pc = "esquema_abrir"
    /\ mig' = [mig EXCEPT !.ret_schema = "False", !.pc = "migrar_leer",
                          !.previo = destino]
    /\ UNCHANGED <<origen, destino>>

\* Lines 24-28, 47-49: the script cannot be read; the outer except returns
\* False.
AbrirEsquemaFalla ==
    /\ mig.pc = "esquema_abrir"
    /\ mig' = Abortar(mig, "ret_schema")
    /\ UNCHANGED <<origen, destino>>

\* Lines 31-33: the connection is open and the statements are split.
ConectarEsquema ==
    /\ mig.pc = "esquema_conectar"
    /\ mig' = [mig EXCEPT !.pc = "esquema_bucle", !.s = 0]
    /\ UNCHANGED <<origen, destino>>

\* Lines 31, 47-49.
ConectarEsquemaFalla ==
    /\ mig.pc = "esquema_conectar"
    /\ mig' = Abortar(mig, "ret_schema")
    /\ UNCHANGED <<origen, destino>>

\* Line 36: a statement that starts with "--" is not executed.
Saltar ==
    /\ mig.pc = "esquema_bucle"
    /\ mig.s < Len(mig.statements)
    /\ mig.statements[mig.s + 1] = "--"
    /\ mig' = [mig EXCEPT !.s = @ + 1]
    /\ UNCHANGED <<origen, destino>>

\* Lines 37-40: the statement is executed and committed.
Ejecutar ==
    /\ mig.pc = "esquema_bucle"
    /\ mig.s < Len(mig.statements)
    /\ mig.statements[mig.s + 1] # "--"
    /\ mig' = [mig EXCEPT !.s = @ + 1, !.ejecutadas = @ \cup {mig.s + 1}]
    /\ UNCHANGED <<origen, destino>>

\* Lines 41-42: the statement fails; the inner except logs a warning and
\* the loop goes on.
EjecutarFalla ==
    /\ mig.pc = "esquema_bucle"
    /\ mig.s < Len(mig.statements)
    /\ mig.statements[mig.s + 1] # "--"
    /\ mig' = [mig EXCEPT !.s = @ + 1, !.fallidas = @ \cup {mig.s + 1}]
    /\ UNCHANGED <<origen, destino>>

\* Lines 44-45, 124, 129: the loop is over; create_schema_supabase returns
\* True and main calls migrate_data.
TerminarEsquema ==
    /\ mig.pc = "esquema_bucle"
    /\ mig.s = Len(mig.statements)
    /\ mig' = [mig EXCEPT !.ret_schema = "True", !.pc = "migrar_leer",
                          !.previo = destino]
    /\ UNCHANGED <<origen, destino>>

\* Lines 55-66: the local table is read; with no rows migrate_data returns
\* True at once (62-64) and main ends normally (133-134).
LeerLocal ==
    /\ mig.pc = "migrar_leer"
    /\ mig' = IF origen = <<>>
              THEN [mig EXCEPT !.df = origen, !.ret_migrate = "True",
                               !.pc = "fin", !.salida = "normal"]
              ELSE [mig EXCEPT !.df = origen, !.pc = "migrar_truncar"]
    /\ UNCHANGED <<origen, destino>>

\* Lines 55-60, 84-86.
LeerLocalFalla ==
    /\ mig.pc = "migrar_leer"
    /\ mig' = Abortar(mig, "ret_migrate")
    /\ UNCHANGED <<origen, destino>>

\* Lines 69-71: TRUNCATE is executed and committed.
Truncar ==
    /\ mig.pc = "migrar_truncar"
    /\ destino' = <<>>
    /\ mig' = [mig EXCEPT !.pc = "migrar_insertar"]
    /\ UNCHANGED origen

\* Lines 69-71, 84-86: the connection or the statement fails; nothing is
\* committed.
TruncarFalla ==
    /\ mig.pc = "migrar_truncar"
    /\ mig' = Abortar(mig, "ret_migrate")
    /\ UNCHANGED <<origen, destino>>

\* Line 75: to_sql appends the rows of df, in one transaction.
Insertar ==
    /\ mig.pc = "migrar_insertar"
    /\ destino' = destino \o mig.df
    /\ mig' = [mig EXCEPT !.pc = "migrar_verificar"]
    /\ UNCHANGED origen

\* Lines 75, 84-86: to_sql raises; its transaction is rolled back and the
\* committed TRUNCATE stays.
InsertarFalla ==
    /\ mig.pc = "migrar_insertar"
    /\ mig' = Abortar(mig, "ret_migrate")
    /\ UNCHANGED <<origen, destino>>

\* Lines 78-82, 133-134: the count is read back; migrate_data returns True
\* and main ends normally.
Verificar ==
    /\ mig.pc = "migrar_verificar"
    /\ mig' = [mig EXCEPT !.ret_migrate = "True", !.pc = "fin", !.salida = "normal"]
    /\ UNCHANGED <<origen, destino>>

\* Lines 78-79, 84-86: the verification query raises after the insert.
VerificarFalla ==
    /\ mig.pc = "migrar_verificar"
    /\ mig' = Abortar(mig, "ret_migrate")
    /\ UNCHANGED <<origen, destino>>

NextMigra ==
    \/ ProbarLocal /\ UNCHANGED <<varsLlamada, varsConc, varsEtl, varsGen>>
    \/ ProbarLocalFalla /\ UNCHANGED <<varsLlamada, varsConc, varsEtl, varsGen>>
    \/ ProbarSupabase /\ UNCHANGED <<varsLlamada, varsConc, varsEtl, varsGen>>
    \/ ProbarSupabaseFalla /\ UNCHANGED <<varsLlamada, varsConc, varsEtl, varsGen>>
    \/ AbrirEsquema /\ UNCHANGED <<varsLlamada, varsConc, varsEtl, varsGen>>
    \/ AbrirEsquemaFalla /\ UNCHANGED <<varsLlamada, varsConc, varsEtl, varsGen>>
    \/ ConectarEsquema /\ UNCHANGED <<varsLlamada, varsConc, varsEtl, varsGen>>
    \/ ConectarEsquemaFalla /\ UNCHANGED <<varsLlamada, varsConc, varsEtl, varsGen>>
    \/ Saltar /\ UNCHANGED <<varsLlamada, varsConc, varsEtl, varsGen>>
    \/ Ejecutar /\ UNCHANGED <<varsLlamada, varsConc, varsEtl, varsGen>>
    \/ EjecutarFalla /\ UNCHANGED <<varsLlamada, varsConc, varsEtl, varsGen>>
    \/ TerminarEsquema /\ UNCHANGED <<varsLlamada, varsConc, varsEtl, varsGen>>
    \/ LeerLocal /\ UNCHANGED <<varsLlamada, varsConc, varsEtl, varsGen>>
    \/ LeerLocalFalla /\ UNCHANGED <<varsLlamada, varsConc, varsEtl, varsGen>>
    \/ Truncar /\ UNCHANGED <<varsLlamada, varsConc, varsEtl, varsGen>>
    \/ TruncarFalla /\ UNCHANGED <<varsLlamada, varsConc, varsEtl, varsGen>>
    \/ Insertar /\ UNCHANGED <<varsLlamada, varsConc, varsEtl, varsGen>>
    \/ InsertarFalla /\ UNCHANGED <<varsLlamada, varsConc, varsEtl, varsGen>>
    \/ Verificar /\ UNCHANGED <<varsLlamada, varsConc, varsEtl, varsGen>>
    \/ VerificarFalla /\ UNCHANGED <<varsLlamada, varsConc, varsEtl, varsGen>>

SpecMigra == InitMigra /\ [][NextMigra]_vars

----------------------------------------------------------------------------
(* What migrate_data leaves in the target table.                           *)

MigrateRetorno == mig.ret_migrate \in {"True", "False"}

\* C26: once migrate_data has returned, True or False, the target table
\* holds what it held before the call or exactly the rows of the source; with
\* an empty source it holds what it held before.
C26_DestinoIntactoOCompleto ==
    /\ MigrateRetorno => destino = mig.previo \/ destino = origen
    /\ MigrateRetorno /\ origen = <<>> => destino = mig.previo

----------------------------------------------------------------------------
(* The order of the steps of main.                                         *)

\* C27: main runs test_connection, create_schema_supabase and migrate_data
\* in this order and leaves with exit status 1 at the first that returns
\* False; the target table changes only after test_connection and
\* create_schema_supabase returned True; and create_schema_supabase, once
\* its statements run, returns True however many of them fail.
C27_PasosEnOrden ==
    /\ [](/\ mig.ret_schema # "sin_llamar" => mig.ret_test = "True"
          /\ mig.ret_migrate # "sin_llamar" => mig.ret_schema = "True"
          /\ mig.pc \in {"esquema_abrir", "esquema_conectar", "esquema_bucle"}
                 => mig.ret_test = "True"
          /\ mig.pc \in {"migrar_leer", "migrar_truncar", "migrar_insertar",
                         "migrar_verificar"} => mig.ret_schema = "True"
          /\ mig.salida = "exit_1" <=>
                 "False" \in {mig.ret_test, mig.ret_schema, mig.ret_migrate}
          /\ mig.salida = "normal" =>
                 {mig.ret_test, mig.ret_schema, mig.ret_migrate} = {"True"}
          /\ mig.salida # "corriendo" <=> mig.pc = "fin")
    /\ [][destino' # destino =>
              /\ mig.ret_test = "True"
              /\ mig.ret_schema = "True"
              /\ mig.ret_migrate = "sin_llamar"]_vars
    /\ [][mig.pc = "esquema_bucle" /\ mig'.pc # "esquema_bucle" =>
              /\ mig.s = Len(mig.statements)
              /\ mig'.ret_schema = "True"
              /\ mig'.pc = "migrar_leer"]_vars

C27_Testigo ==
    /\ mig.pc = "fin"
    /\ mig.salida = "normal"
    /\ mig.statements = <<"sql", "sql">>
    /\ mig.fallidas = {1, 2}
    /\ mig.ret_schema = "True"
    /\ mig.previo # <<>>
    /\ origen # <<>>
    /\ destino = origen

----------------------------------------------------------------------------
(* The export (generate_insert_script.py): the rows of the local table are *)
(* written as INSERT statements to supabase_data_insert.sql.  A row is its *)
(* position in ORDER BY id; a line of the script is its kind, the number   *)
(* it carries and the rows whose value tuples it holds.                    *)

MaxExportadas == 201

batch_size == 100

\* Line 46: the rows the query returns, in the order of their id.
TablasExport == { [k \in 1..n |-> k] : n \in 0..MaxExportadas }

Renglon(clase, num, filas) == [clase |-> clase, num |-> num, filas |-> filas]

\* Lines 55-63: the eight lines ahead of the first batch.
Encabezado(n) ==
    << Renglon("comentario", 0, <<>>), Renglon("comentario", 0, <<>>),
       Renglon("total", n, <<>>), Renglon("vacia", 0, <<>>),
       Renglon("comentario", 0, <<>>), Renglon("comentario", 0, <<>>),
       Renglon("vacia", 0, <<>>), Renglon("comentario", 0, <<>>) >>

\* A slice that takes one row more than the batch size.
Rebanada_Solapada(df, desde) ==
    SubSeq(df, desde + 1,
           IF desde + batch_size + 1 < Len(df) THEN desde + batch_size + 1 ELSE Len(df))

\* Line 68: df.iloc[i:i+batch_size].
Rebanada(df, desde) ==
    SubSeq(df, desde + 1,
           IF desde + batch_size < Len(df) THEN desde + batch_size ELSE Len(df))

\* Lines 70-87: the lines of the batch that starts at offset desde.
RenglonesLote(df, desde) ==
    << Renglon("lote", (desde \div batch_size) + 1, <<>>),
       Renglon("insert", 0, <<>>), Renglon("columnas", 0, <<>>),
       Renglon("columnas", 0, <<>>), Renglon("values", 0, <<>>),
       Renglon("tuplas", 0, Rebanada(df, desde)),
       Renglon(";", 0, <<>>), Renglon("vacia", 0, <<>>) >>

\* The call is about to query the table t.
GenInicial(t) ==
    [pc |-> "leer", tabla |-> t, df |-> <<>>, i |-> 0, sql_script |-> <<>>,
     ret |-> "corriendo"]

InitGen ==
    /\ guion = [existe |-> FALSE]
    /\ gen \in { GenInicial(t) : t \in TablasExport }
    /\ LlamadaReposo
    /\ ConcReposo
    /\ EtlReposo
    /\ MigraReposo

\* Lines 100-102: an exception raised inside the try ends the call with
\* False.
FallarGen == gen' = [gen EXCEPT !.pc = "fin", !.ret = "False"]

\* Lines 24-52: the query is answered; with no rows the call returns False
\* (48-50).
LeerExport ==
    /\ gen.pc = "leer"
    /\ gen' = IF gen.tabla = <<>>
              THEN [gen EXCEPT !.df = gen.tabla, !.pc = "fin", !.ret = "False"]
              ELSE [gen EXCEPT !.df = gen.tabla, !.pc = "encabezar"]
    /\ UNCHANGED guion

\* Lines 25-46: the engine or the query raises.
LeerExportFalla ==
    /\ gen.pc = "leer"
    /\ FallarGen
    /\ UNCHANGED guion

\* Lines 55-67: the header lines; the loop starts at offset 0.
Encabezar ==
    /\ gen.pc = "encabezar"
    /\ gen' = [gen EXCEPT !.sql_script = Encabezado(Len(gen.df)), !.i = 0,
                          !.pc = "lotes"]
    /\ UNCHANGED guion

\* Lines 67-87: one turn of the loop over range(0, len(df), batch_size).
Lote ==
    /\ gen.pc = "lotes"
    /\ gen.i < Len(gen.df)
    /\ gen' = [gen EXCEPT !.sql_script = @ \o RenglonesLote(gen.df, gen.i),
                          !.i = @ + batch_size]
    /\ UNCHANGED guion

\* Lines 77-83: formatting a row raises (a name that is no text).
LoteFalla ==
    /\ gen.pc = "lotes"
    /\ gen.i < Len(gen.df)
    /\ FallarGen
    /\ UNCHANGED guion

\* Lines 90-98: the loop is over; the lines are written to the file and
\* the call returns True.
Escribir ==
    /\ gen.pc = "lotes"
    /\ gen.i >= Len(gen.df)
    /\ guion' = [existe |-> TRUE, lineas |-> gen.sql_script]
    /\ gen' = [gen EXCEPT !.pc = "fin", !.ret = "True"]

\* Lines 92-93: open raises and leaves no file, or write raises and leaves
\* the file open() created, empty.
EscribirFalla ==
    /\ gen.pc = "lotes"
    /\ gen.i >= Len(gen.df)
    /\ guion' \in {guion, [existe |-> TRUE, lineas |-> <<>>]}
    /\ FallarGen

NextGen ==
    \/ LeerExport /\ UNCHANGED <<varsLlamada, varsConc, varsEtl, varsMigra>>
    \/ LeerExportFalla /\ UNCHANGED <<varsLlamada, varsConc, varsEtl, varsMigra>>
    \/ Encabezar /\ UNCHANGED <<varsLlamada, varsConc, varsEtl, varsMigra>>
    \/ Lote /\ UNCHANGED <<varsLlamada, varsConc, varsEtl, varsMigra>>
    \/ LoteFalla /\ UNCHANGED <<varsLlamada, varsConc, varsEtl, varsMigra>>
    \/ Escribir /\ UNCHANGED <<varsLlamada, varsConc, varsEtl, varsMigra>>
    \/ EscribirFalla /\ UNCHANGED <<varsLlamada, varsConc, varsEtl, varsMigra>>

SpecGen == InitGen /\ [][NextGen]_vars

----------------------------------------------------------------------------
(* The batches of the script.                                              *)

\* The lines of the written script of one kind, in order.
DeClase(clase) == SelectSeq(guion.lineas, LAMBDA r : r.clase = clase)

\* The rows of the first k INSERT statements, in order.
RECURSIVE FilasHasta(_, _)
FilasHasta(ss, k) ==
    IF k = 0 THEN <<>> ELSE FilasHasta(ss, k - 1) \o ss[k].filas

\* C28: the script the call writes holds the n exported rows in consecutive
\* batches of at most 100: the INSERT statements together hold every row
\* once, in the order of the ids; every batch but the last holds exactly
\* 100 rows and none is empty; there are ceil(n/100) batches, numbered from
\* 1; and with n = 0 no file is written and the call returns False.
C28_LotesDeCien ==
    /\ gen.ret = "True" =>
           /\ guion.existe
           /\ gen.df = gen.tabla
           /\ LET ss == DeClase("tuplas")
                  n == Len(gen.tabla)
              IN  /\ n > 0
                  /\ FilasHasta(ss, Len(ss)) = gen.tabla
                  /\ Len(ss) = (n + 99) \div 100
                  /\ \A k \in 1..Len(ss) :
                         /\ Len(ss[k].filas) \in 1..100
                         /\ k < Len(ss) => Len(ss[k].filas) = 100
                  /\ Len(DeClase("insert")) = Len(ss)
                  /\ Len(DeClase("lote")) = Len(ss)
                  /\ \A k \in 1..Len(ss) : DeClase("lote")[k].num = k
    /\ gen.pc = "fin" /\ gen.tabla = <<>> => ~guion.existe /\ gen.ret = "False"

C28_Testigo ==
    /\ gen.pc = "fin"
    /\ gen.ret = "True"
    /\ Len(gen.tabla) = 201
    /\ guion.existe
    /\ Len(DeClase("tuplas")) = 3
    /\ DeClase("tuplas")[2].filas = [k \in 1..100 |-> 100 + k]
    /\ DeClase("tuplas")[3].filas = <<201>>
    /\ DeClase("lote")[3].num = 3

===============================================================================
